---- MODULE Spec2Model ----
(***************************************************************************)
(* Model of the IDC price-list ingester (src/providers/idc_pdf.py): the    *)
(* price, stock and name normalisers, the line classifier and row          *)
(* reconstructor (_extract_rows_from_text) and the record assembler        *)
(* (ingest_idc_pdf); the provider registry (src/providers/registry.py)     *)
(* and the command line (src/run.py).                                      *)
(*                                                                         *)
(* Text is modelled by strings, character by character.  A Python          *)
(* Optional value is a set: None is {} and a value v is {v}.  A float is   *)
(* the exact decimal it denotes, [m |-> mantissa, e |-> fraction digits],  *)
(* with trailing fraction zeros removed (1200.00 is [m |-> 1200, e |-> 0]).*)
(* The two non-ASCII glyphs the classifier tests for are written with the  *)
(* stand-in characters BRIEFCASE and BULLET.                               *)
(***************************************************************************)
EXTENDS Integers, Sequences, FiniteSets, TLC

VARIABLES
    entry,            \* which function the caller invoked
    pc,               \* position in the running function
    \* _extract_rows_from_text
    lines, i, name_buffer, in_continuation, rows,
    \* the normalisers: argument(s) and result(s) of the call(s)
    arg, arg2, ret, ret2,
    \* ingest_idc_pdf: its parameters, the document behind the path,
    input_path, supplier_name, pdf,
    \* the number of pages read, the lines collected, the document handle,
    page, all_lines, handle,
    \* the level of the "pdfminer" logger and the level saved,
    logger_level, original_level,
    \* the exception in flight, the records built and the table returned
    exc, out, df,
    \* providers/registry.py: the REGISTRY dict and the outcome of the last call
    REGISTRY, result,
    \* run.py: the state of main
    cli,
    \* two passes of ingest_idc_pdf running at once: the state of each
    passes

scanVars == <<lines, i, name_buffer, in_continuation, rows>>
fnVars == <<arg, arg2, ret, ret2>>
ingestVars ==
    <<input_path, supplier_name, pdf, page, all_lines, handle, logger_level,
      original_level, exc, out, df>>
otherVars == <<REGISTRY, result, cli, passes>>
vars == <<entry, pc, scanVars, fnVars, ingestVars, otherVars>>

----------------------------------------------------------------------------
(* Bounds of the model *)

MaxLines == 3
MaxPriceLen == 4
MaxStockParts == 4
MaxNameLen == 4
MaxPages == 2
MaxTokens == 4
MaxAfter == 2

----------------------------------------------------------------------------
(* Python values *)

None == {}
Some(v) == {v}
The(o) == CHOOSE v \in o : TRUE

Chr(s, k) == SubSeq(s, k, k)

\* str.isspace / the regex class \s, on the characters of the model
IsSpace(c) == c \in {" ", "\t", "\n", "\r", "\f"}

\* the regex class \d (ASCII digits)
IsDigit(c) == c \in {"0", "1", "2", "3", "4", "5", "6", "7", "8", "9"}

DigitVal(c) == CHOOSE d \in 0..9 : Chr("0123456789", d + 1) = c

\* int() of a string of digits
RECURSIVE DigitsToNat(_)
DigitsToNat(s) ==
    IF s = "" THEN 0
    ELSE DigitsToNat(SubSeq(s, 1, Len(s) - 1)) * 10 + DigitVal(Chr(s, Len(s)))

\* str.strip(): drop the leading and the trailing whitespace
RECURSIVE LStrip(_)
LStrip(s) == IF s # "" /\ IsSpace(Chr(s, 1)) THEN LStrip(Tail(s)) ELSE s

RECURSIVE RStrip(_)
RStrip(s) ==
    IF s # "" /\ IsSpace(Chr(s, Len(s)))
    THEN RStrip(SubSeq(s, 1, Len(s) - 1))
    ELSE s

Strip(s) == RStrip(LStrip(s))

\* sub in s
Contains(s, sub) ==
    \E k \in 1..(Len(s) - Len(sub) + 1) : SubSeq(s, k, k + Len(sub) - 1) = sub

\* s.startswith(p)
StartsWith(s, p) == Len(s) >= Len(p) /\ SubSeq(s, 1, Len(p)) = p

\* s.replace(a, b) for a one-character a
RECURSIVE Replace(_, _, _)
Replace(s, a, b) ==
    IF s = "" THEN ""
    ELSE (IF Chr(s, 1) = a THEN b ELSE Chr(s, 1)) \o Replace(Tail(s), a, b)

\* the least of the positions hits, or hi + 1 when there is none: where a
\* search from the left stops
FirstIn(hits, hi) ==
    IF hits = {} THEN hi + 1 ELSE CHOOSE k \in hits : \A j \in hits : k <= j

\* s.split(sep)[0] for a one-character sep
SplitFirst(s, sep) ==
    SubSeq(s, 1, FirstIn({k \in 1..Len(s) : Chr(s, k) = sep}, Len(s)) - 1)

\* " ".join(parts)
RECURSIVE Join(_)
Join(parts) ==
    IF parts = <<>> THEN ""
    ELSE IF Len(parts) = 1 THEN parts[1]
    ELSE parts[1] \o " " \o Join(Tail(parts))

\* the ASCII letters, lower case to upper case and back
LowerCase == "abcdefghijklmnopqrstuvwxyz"
UpperCase == "ABCDEFGHIJKLMNOPQRSTUVWXYZ"
UpperOf ==
    [c \in {Chr(LowerCase, k) : k \in 1..26} |->
        Chr(UpperCase, CHOOSE k \in 1..26 : Chr(LowerCase, k) = c)]
LowerOf ==
    [c \in {Chr(UpperCase, k) : k \in 1..26} |->
        Chr(LowerCase, CHOOSE k \in 1..26 : Chr(UpperCase, k) = c)]

\* re.IGNORECASE on ASCII letters
ToUpper(c) == IF c \in DOMAIN UpperOf THEN UpperOf[c] ELSE c

EqIgnoreCase(s, t) ==
    /\ Len(s) = Len(t)
    /\ \A k \in 1..Len(s) : ToUpper(Chr(s, k)) = ToUpper(Chr(t, k))

\* the regex character classes the patterns use
InClass(cls, c) ==
    CASE cls = "\\s" -> IsSpace(c)
      [] cls = "\\d" -> IsDigit(c)
      [] cls = "[0-9.,]" -> IsDigit(c) \/ c \in {".", ","}

\* the end (exclusive) of the longest run of characters of a class that starts
\* at position p: what a greedy cls* consumes from p
RECURSIVE RunEnd(_, _, _)
RunEnd(s, p, cls) ==
    IF p > Len(s) \/ ~InClass(cls, Chr(s, p)) THEN p ELSE RunEnd(s, p + 1, cls)

----------------------------------------------------------------------------
(* _parse_price_to_float *)

\* _PRICE_RE = \$?\s*([0-9\.\,]+) tried at position p: the span of group 1,
\* or <<>> when there is no match at p
PriceMatchAt(s, p) ==
    LET q == IF p <= Len(s) /\ Chr(s, p) = "$" THEN p + 1 ELSE p
        r == RunEnd(s, q, "\\s")
        e == RunEnd(s, r, "[0-9.,]")
    IN  IF e > r THEN <<r, e - 1>> ELSE <<>>

\* _PRICE_RE.search(text) from position p on: group 1 of the leftmost match,
\* or None
PriceSearchFrom(text, p) ==
    LET at == FirstIn({k \in p..Len(text) : PriceMatchAt(text, k) # <<>>}, Len(text))
        g == PriceMatchAt(text, at)
    IN  IF at > Len(text) THEN None ELSE Some(SubSeq(text, g[1], g[2]))

PriceSearch(text) == PriceSearchFrom(text, 1)

\* a decimal with its trailing fraction zeros removed
RECURSIVE Normalize(_)
Normalize(d) ==
    IF d.e > 0 /\ d.m % 10 = 0
    THEN Normalize([m |-> d.m \div 10, e |-> d.e - 1])
    ELSE d

\* lines 43-46: float(raw) for a raw made of digits, '.' and ',', with the
\* ValueError it raises caught and turned into None
ParseFloat(raw) ==
    LET dots == {k \in 1..Len(raw) : Chr(raw, k) = "."}
        digs == {k \in 1..Len(raw) : IsDigit(Chr(raw, k))}
    IN  IF \/ digs = {}
           \/ Cardinality(dots) > 1
           \/ Cardinality(dots) + Cardinality(digs) # Len(raw)
        THEN None
        ELSE Some(Normalize(
                 [m |-> DigitsToNat(Replace(raw, ".", "")),
                  e |-> IF dots = {} THEN 0 ELSE Len(raw) - The(dots)]))

\* the mutant without the comma-only case
SeparatorsNoCommaOnly(raw) ==
    IF Contains(raw, ",") /\ Contains(raw, ".")
    THEN Replace(Replace(raw, ".", ""), ",", ".")
    ELSE raw

\* lines 37-41: thousands and decimal separators
Separators(raw) ==
    IF Contains(raw, ",") /\ Contains(raw, ".")
    THEN Replace(Replace(raw, ".", ""), ",", ".")
    ELSE IF Contains(raw, ",") /\ ~Contains(raw, ".")
    THEN Replace(raw, ",", ".")
    ELSE raw

_parse_price_to_float(text) ==
    IF text = "" THEN None
    ELSE LET m == PriceSearch(text)
         IN  IF m = None THEN None
             ELSE ParseFloat(Separators(Strip(The(m))))

----------------------------------------------------------------------------
(* _parse_stock *)

\* the mutant without re.IGNORECASE
UnitsMatchAtCaseSensitive(s, p) ==
    LET q == IF p <= Len(s) /\ Chr(s, p) = "+" THEN p + 1 ELSE p
        d == RunEnd(s, q, "\\d")
        w == RunEnd(s, d, "\\s")
    IN  IF d > q /\ w + 7 <= Len(s) /\ SubSeq(s, w, w + 7) = "UNIDADES"
        THEN Some(SubSeq(s, p, d - 1))
        ELSE None

\* _UNITS_RE = (\+?\d+)\s*UNIDADES, re.IGNORECASE, tried at position p:
\* group 1, or None when there is no match at p
UnitsMatchAt(s, p) ==
    LET q == IF p <= Len(s) /\ Chr(s, p) = "+" THEN p + 1 ELSE p
        d == RunEnd(s, q, "\\d")
        w == RunEnd(s, d, "\\s")
    IN  IF d > q /\ w + 7 <= Len(s) /\ EqIgnoreCase(SubSeq(s, w, w + 7), "UNIDADES")
        THEN Some(SubSeq(s, p, d - 1))
        ELSE None

\* _UNITS_RE.search(text) from position p on: group 1 of the leftmost match,
\* or None
UnitsSearchFrom(text, p) ==
    LET at == FirstIn({k \in p..Len(text) : UnitsMatchAt(text, k) # None}, Len(text))
    IN  IF at > Len(text) THEN None ELSE UnitsMatchAt(text, at)

UnitsSearch(text) == UnitsSearchFrom(text, 1)

_parse_stock(text) ==
    IF text = "" THEN None
    ELSE LET m == UnitsSearch(text)
         IN  IF m = None THEN None
             ELSE Some(DigitsToNat(Replace(The(m), "+", "")))

----------------------------------------------------------------------------
(* _cleanup_name *)

\* the mutant re.sub(r"\s", " ", name)
CollapseSpacesEach(s) == Replace(Replace(Replace(s, "\n", " "), "\t", " "), "\r", " ")

\* re.sub(r"\s+", " ", name) on the characters lo..hi of s: a run of
\* whitespace gives one " ", at its first character
RECURSIVE CollapseRange(_, _, _)
CollapseRange(s, lo, hi) ==
    IF lo > hi THEN ""
    ELSE IF lo = hi
    THEN IF ~IsSpace(Chr(s, lo)) THEN Chr(s, lo)
         ELSE IF lo > 1 /\ IsSpace(Chr(s, lo - 1)) THEN ""
         ELSE " "
    ELSE LET mid == (lo + hi) \div 2
         IN  CollapseRange(s, lo, mid) \o CollapseRange(s, mid + 1, hi)

\* re.sub(r"\s+", " ", name)
CollapseSpaces(s) == CollapseRange(s, 1, Len(s))

\* name is Optional: (name or "").strip(), then the substitution
_cleanup_name(name) ==
    CollapseSpaces(Strip(IF name = None THEN "" ELSE The(name)))

----------------------------------------------------------------------------
(* _extract_prices_from_line *)

\* \$\s*([0-9\.\,]+)\s*\+\s*iva, re.IGNORECASE, tried at position p:
\* <<first position after the match, group 1>>, or <<>> when no match at p
\* the mutant that takes '$ amount' for a tier without its tax marker
TierMatchAtNoTax(s, p) ==
    LET a == RunEnd(s, p + 1, "\\s")
        b == RunEnd(s, a, "[0-9.,]")
    IN  IF p <= Len(s) /\ Chr(s, p) = "$" /\ b > a
        THEN <<b, SubSeq(s, a, b - 1)>>
        ELSE <<>>

TierMatchAt(s, p) ==
    LET a == RunEnd(s, p + 1, "\\s")
        b == RunEnd(s, a, "[0-9.,]")
        c == RunEnd(s, b, "\\s")
        d == RunEnd(s, c + 1, "\\s")
    IN  IF /\ p <= Len(s) /\ Chr(s, p) = "$"
           /\ b > a
           /\ c <= Len(s) /\ Chr(s, c) = "+"
           /\ d + 2 <= Len(s) /\ EqIgnoreCase(SubSeq(s, d, d + 2), "iva")
        THEN <<d + 3, SubSeq(s, a, b - 1)>>
        ELSE <<>>

\* re.finditer from position p on: the matches left to right, not overlapping,
\* each appended as "$" + group 1
RECURSIVE PricesFrom(_, _)
PricesFrom(s, p) ==
    LET at == FirstIn({k \in p..Len(s) : TierMatchAt(s, k) # <<>>}, Len(s))
        m == TierMatchAt(s, at)
    IN  IF at > Len(s) THEN <<>>
        ELSE <<"$" \o m[2]>> \o PricesFrom(s, m[1])

_extract_prices_from_line(text) == PricesFrom(text, 1)

----------------------------------------------------------------------------
(* _extract_rows_from_text: the per-line tests *)

\* stand-ins for U+1F4BC (briefcase) and U+2022 (bullet)
BRIEFCASE == "#"
BULLET == "*"

\* the mutant without the footer phrase
IsNoiseNoFooter(line) ==
    \/ line = ""
    \/ Contains(line, "SKU IDC")
    \/ Contains(line, "NOMBRE DEL PRODUCTO")
    \/ StartsWith(line, "Gratis")
    \/ StartsWith(line, BRIEFCASE)
    \/ StartsWith(line, BULLET)

\* lines 99-107, on the stripped line
IsNoise(line) ==
    \/ line = ""
    \/ Contains(line, "SKU IDC")
    \/ Contains(line, "NOMBRE DEL PRODUCTO")
    \/ Contains(line, "FORMAS DE PAGO")
    \/ StartsWith(line, "Gratis")
    \/ StartsWith(line, BRIEFCASE)
    \/ StartsWith(line, BULLET)

\* the number of digits _SKU_INLINE_RE asks for
SkuDigits == 6

\* ^(\d{n})\s+(.+)$ matched at the start of the line: the two groups, or
\* None.  \s+ is greedy and (.+) needs one character that is not a line
\* break, up to the end of the line.
SkuMatchWith(line, n) ==
    LET w == RunEnd(line, n + 1, "\\s")
        g == IF w <= Len(line) THEN w ELSE w - 1
    IN  IF /\ Len(line) > n
           /\ \A k \in 1..n : IsDigit(Chr(line, k))
           /\ g > n + 1
           /\ \A k \in g..Len(line) : Chr(line, k) # "\n"
        THEN Some([sku |-> SubSeq(line, 1, n),
                   rest_of_line |-> SubSeq(line, g, Len(line))])
        ELSE None

\* the mutant ^(\d{5,6})\s+(.+)$, the digit count of _SKU_RE
SkuInlineMatch5or6(line) ==
    IF SkuMatchWith(line, 6) # None
    THEN SkuMatchWith(line, 6)
    ELSE SkuMatchWith(line, 5)

\* the mutant ^(\d{6,7})\s+(.+)$
SkuInlineMatch6or7(line) ==
    IF SkuMatchWith(line, 7) # None
    THEN SkuMatchWith(line, 7)
    ELSE SkuMatchWith(line, 6)

\* _SKU_INLINE_RE = ^(\d{6})\s+(.+)$ matched at the start of the line
SkuInlineMatch(line) == SkuMatchWith(line, SkuDigits)

\* line 116: sku_match and "$" in line
IsRecordOpening(line) == SkuInlineMatch(line) # None /\ Contains(line, "$")

\* lines 154-196
product_keywords ==
    <<"Laptop", "Monitor", "Nas", "Pc", "Aio", "Celular", "Central",
      "Generador", "Impresora", "Scanner", "Tablet", "Desktop", "Server",
      "Router", "Switch", "Firewall", "Access", "Camera", "Webcam", "Teclado",
      "Mouse", "Audifonos", "Parlante", "Microfono", "Disco", "Ssd", "Ram",
      "Memoria", "Procesador", "Tarjeta", "Cable", "Adaptador", "Hub", "Dock",
      "Fuente", "UPS", "Bateria", "Pantalla", "Proyector", "Tv", "Smart">>

\* the mutant that matches a keyword as the whole leading word of the line
StartsWithKeywordWord(line) ==
    \E k \in 1..Len(product_keywords) :
        /\ StartsWith(line, product_keywords[k])
        /\ \/ Len(line) = Len(product_keywords[k])
           \/ IsSpace(Chr(line, Len(product_keywords[k]) + 1))

\* line 199
StartsWithKeyword(line) ==
    \E k \in 1..Len(product_keywords) : StartsWith(line, product_keywords[k])

\* lines 124-134: the name of the record opened by a line, given the buffer
RecordName(buffer, rest_of_line) ==
    LET before_price == Strip(SplitFirst(rest_of_line, "$"))
        name_parts ==
            IF Contains(rest_of_line, "$")
            THEN IF before_price # "" THEN Append(buffer, before_price) ELSE buffer
            ELSE Append(buffer, rest_of_line)
    IN  _cleanup_name(Some(Join(name_parts)))

\* lines 117-144: the tuple appended for a record-opening line
RawTuple(buffer, line) ==
    LET sku_match == The(SkuInlineMatch(line))
        prices == _extract_prices_from_line(line)
    IN  [sku |-> sku_match.sku,
         name |-> RecordName(buffer, sku_match.rest_of_line),
         x1 |-> IF Len(prices) > 0 THEN prices[1] ELSE "",
         x3 |-> IF Len(prices) > 1 THEN prices[2] ELSE "",
         x6 |-> IF Len(prices) > 2 THEN prices[3] ELSE "",
         stock_txt |-> line,
         eta_txt |-> line]

----------------------------------------------------------------------------
(* ingest_idc_pdf: the document and its text *)

\* the character at which text.splitlines() breaks a line
IsLineBreak(c) == c \in {"\n", "\r", "\f"}

\* the first position of a line break in t from p on, or Len(t) + 1
BreakAt(t, p) == FirstIn({k \in p..Len(t) : IsLineBreak(Chr(t, k))}, Len(t))

\* text.splitlines(): "\r\n" is one break, and a final break ends the last
\* line without opening another
RECURSIVE SplitLines(_)
SplitLines(t) ==
    IF t = "" THEN <<>>
    ELSE LET e == BreakAt(t, 1)
             n == IF e < Len(t) /\ Chr(t, e) = "\r" /\ Chr(t, e + 1) = "\n"
                  THEN e + 2
                  ELSE e + 1
         IN  <<SubSeq(t, 1, e - 1)>>
             \o (IF n > Len(t) THEN <<>> ELSE SplitLines(SubSeq(t, n, Len(t))))

\* lines 246-248: [ln.strip() for ln in text.splitlines() if ln.strip()]
PageLines(text) ==
    LET kept == SelectSeq(SplitLines(text), LAMBDA ln : Strip(ln) # "")
    IN  [k \in 1..Len(kept) |-> Strip(kept[k])]

\* line 244: page.extract_text() or "", of a page whose extraction gives a
\* text or None
PageText(pg) == IF pg.kind = "text" THEN pg.text ELSE ""

TextPage(t) == [kind |-> "text", text |-> t]

\* the pages of the complete price list of the tests, one record each, with
\* the name lines, the text after the SKU and the text after the stock varied
CompletePages ==
    { TextPage(n1 \o "\n" \o n2 \o "\n123456 " \o text
               \o " $1.200,00 + iva $1.150,00 + iva $1.100,00 + iva"
               \o " 50 UNIDADES" \o tail \o "\n") :
        n1 \in {"Laptop Notebook HP ProBook 450 G8", "Notebook  HP"},
        n2 \in {"Core i5 8GB RAM 256GB SSD", "Mouse Logitech"},
        text \in {"Extra Specs", "Wireless"},
        tail \in {" En stock"} }

\* the other pages of the tests: no data, headers only, blank lines, a name
\* line alone, records alone, text after a record, a price alone, a page
\* whose extraction gives None and a page whose extraction raises
OtherPages ==
    { TextPage(""),
      TextPage("Sin datos validos"),
      TextPage("SKU IDC\r\nNOMBRE DEL PRODUCTO\n"),
      TextPage("\n  \n\t\n"),
      TextPage("Laptop Producto Pagina 1"),
      TextPage("  123456 Extra $100,00 + iva $95,00 + iva $90,00 + iva 10 UNIDADES\n"),
      TextPage("678901 Extra $200,00 + iva Consultar disponibilidad\n"),
      TextPage("Tecnical details line\nMonitor Mouse Logitech MX Master 3\n"),
      TextPage("$50 + iva"),
      [kind |-> "none", text |-> ""],
      [kind |-> "error", text |-> ""] }

PagePool == CompletePages \cup OtherPages

\* the lines the pages give
DocLines ==
    UNION { {PageLines(PageText(pg))[k] : k \in 1..Len(PageLines(PageText(pg)))} :
            pg \in PagePool }

\* the mutant that keeps the directories
PathWhole(s) == s

\* Path(input_path).name, for a path without "." or ".." components: the text
\* after the last "/" once trailing "/" are dropped
PathName(s) ==
    LET end == Len(s) - FirstIn({k \in 0..(Len(s) - 1) : Chr(s, Len(s) - k) # "/"}, Len(s) - 1)
        from == end - FirstIn({k \in 0..(end - 1) : Chr(s, end - k) = "/"}, end - 1)
    IN  SubSeq(s, from + 1, end)

----------------------------------------------------------------------------
(* ingest_idc_pdf: the records and the table *)

\* core/schema.py: the canonical column order
STANDARD_COLUMNS ==
    <<"supplier", "supplier_sku", "title", "brand", "model", "ean_upc",
      "category", "condition", "cost_x1_usd", "cost_x3_usd", "cost_x6_usd",
      "tax_included", "stock", "eta_text", "source_file">>

\* lines 259-273: the keys of the dict built for a tuple, in insertion order
RecordKeys ==
    <<"supplier", "supplier_sku", "title", "brand", "model", "ean_upc",
      "category", "condition", "cost_x1_usd", "cost_x3_usd", "cost_x6_usd",
      "tax_included", "stock", "eta_text", "source_file">>

\* lines 256-274: the dict built for a tuple
AssembleRecord(r, supplier, path) ==
    [supplier |-> supplier,
     supplier_sku |-> r.sku,
     title |-> r.name,
     brand |-> None,
     model |-> None,
     ean_upc |-> None,
     category |-> None,
     condition |-> None,
     cost_x1_usd |-> _parse_price_to_float(r.x1),
     cost_x3_usd |-> _parse_price_to_float(r.x3),
     cost_x6_usd |-> _parse_price_to_float(r.x6),
     tax_included |-> "no",
     stock |-> _parse_stock(r.stock_txt),
     eta_text |-> IF r.eta_txt # "" THEN Some(Strip(r.eta_txt)) ELSE None,
     source_file |-> PathName(path)]

\* pd.DataFrame(out): the columns are the keys of the dicts, in order
DataFrame(records) ==
    [columns |-> IF records = <<>> THEN <<>> ELSE RecordKeys,
     rows |-> records]

\* pd.DataFrame(columns=cols)
EmptyFrame(cols) == [columns |-> cols, rows |-> <<>>]

\* df.empty: no row or no column
IsEmpty(frame) == frame.rows = <<>> \/ frame.columns = <<>>

ColumnSet(frame) == {frame.columns[k] : k \in 1..Len(frame.columns)}

\* lines 283-285: each column of cols the frame lacks is added, last, as None
RECURSIVE FillMissing(_, _)
FillMissing(frame, cols) ==
    IF cols = <<>> THEN frame
    ELSE LET c == Head(cols)
             filled ==
                 IF c \in ColumnSet(frame) THEN frame
                 ELSE [columns |-> Append(frame.columns, c),
                       rows |-> [k \in 1..Len(frame.rows) |->
                                    [x \in ColumnSet(frame) \cup {c} |->
                                        IF x = c THEN None
                                        ELSE frame.rows[k][x]]]]
         IN  FillMissing(filled, Tail(cols))

\* line 286: df[cols]
SelectColumns(frame, cols) ==
    [columns |-> cols,
     rows |-> [k \in 1..Len(frame.rows) |->
                  [x \in {cols[j] : j \in 1..Len(cols)} |-> frame.rows[k][x]]]]

\* the mutant that returns the frame as pd.DataFrame(out) built it
BuildFrameAsBuilt(records) == DataFrame(records)

\* lines 277-286: the table returned for the records
BuildFrame(records) ==
    LET built == DataFrame(records)
        frame == IF IsEmpty(built) THEN EmptyFrame(STANDARD_COLUMNS) ELSE built
    IN  SelectColumns(FillMissing(frame, STANDARD_COLUMNS), STANDARD_COLUMNS)

----------------------------------------------------------------------------
(* The lines of the model *)

\* the lines a caller may pass: each class of line the scan tells apart
LinePool ==
    { "",
      "SKU IDC",
      "NOMBRE DEL PRODUCTO",
      "FORMAS DE PAGO: Efectivo",
      "Gratis envio",
      BRIEFCASE \o " Oferta",
      BULLET \o " nota",
      "123456 Extra $100,00 + iva $95,00 + iva 10 UNIDADES",
      "678901 $5 + iva",
      "123456 texto sin precio",
      "12345 Extra $100,00 + iva 10 UNIDADES",
      "1234567 Extra $100,00 + iva 10 UNIDADES",
      "Laptop Producto A",
      "Core i5 8GB",
      "  Monitor  B ",
      "laptop x",
      "$50 + iva",
      "123456 FORMAS DE PAGO $1 + iva" }

\* the pieces of the priced part of a record-opening line, each with the
\* tier it stands for ("" for none): '$ amount + iva' with the spacing and the
\* case of the tests and of the pattern, and '$ amount' without '+ iva'
TierTokens ==
    {[text |-> "$1 + iva", tier |-> "$1"],
     [text |-> "$2,50 +IVA", tier |-> "$2,50"],
     [text |-> "$ 3.000,00+ Iva", tier |-> "$3.000,00"],
     [text |-> "$9", tier |-> ""],
     [text |-> "$8 iva", tier |-> ""]}

\* the record-opening line with the pieces ts after its SKU
TierLine(ts) == "123456 " \o Join([k \in 1..Len(ts) |-> ts[k].text])

\* the record-opening lines with at most MaxTokens pieces
TierLines ==
    {TierLine(ts) : ts \in UNION {[1..k -> TierTokens] : k \in 1..MaxTokens}}

\* the lines met right after a record: a keyword of line 199 alone, as the
\* start of a longer word, in another case, after blanks, after another word,
\* and before a price
KeywordLines ==
    { "Laptop",
      "Laptops 15",
      "Nashville",
      "UPS 1kVA",
      "Ups 1kVA",
      "laptop x",
      "LAPTOP X",
      "  Monitor  B ",
      "Un Laptop",
      "Monitor LG $200",
      "monitor LG $200" }

\* the lines met after those: a record-opening line, a name line, a loose
\* price and a header
AfterLines == {"678901 $5 + iva", "Core i5 8GB", "$50 + iva", "SKU IDC"}

\* every line a scan may meet: as a caller passes it, or as a page gives it
KnownLines == LinePool \cup DocLines \cup TierLines \cup KeywordLines

\* the tests of lines 96-116, 199, 204 and 213 on each line of the model,
\* evaluated once per line
LineTests ==
    [l \in KnownLines |->
        LET line == Strip(l)
        IN  [line |-> line,
             noise |-> IsNoise(line),
             opening |-> IsRecordOpening(line),
             keyword |-> StartsWithKeyword(line),
             dollar |-> Contains(line, "$")]] @@ <<>>

\* lines 117-144 evaluated once for each record-opening line of the pool and
\* each buffer that a scan of at most MaxLines lines of the pool can hold
Tuples ==
    LET kept == {l \in LinePool : ~LineTests[l].noise /\ ~LineTests[l].opening
                                     /\ (LineTests[l].keyword \/ ~LineTests[l].dollar)}
        opening == {l \in LinePool : ~LineTests[l].noise /\ LineTests[l].opening}
        buffers == UNION {[1..k -> {LineTests[l].line : l \in kept}] :
                            k \in 0..(MaxLines - 1)}
    IN  [b \in buffers, l \in {LineTests[o].line : o \in opening} |->
            RawTuple(b, l)] @@ <<>>

\* lines 117-144: the tuple appended for a record-opening line, from the
\* table when it is there
Tuple(buffer, line) ==
    IF <<buffer, line>> \in DOMAIN Tuples THEN Tuples[buffer, line]
    ELSE RawTuple(buffer, line)

----------------------------------------------------------------------------
(* _extract_rows_from_text: the scan *)

\* while i < n
Scanning == pc = "scan" /\ i < Len(lines)

\* the tests on lines[i]
Test == LineTests[lines[i + 1]]

\* line 96: line = lines[i].strip()
Line == Test.line

\* one iteration of the loop: i += 1 and the new buffer, flag and rows
Advance(buffer, continuation, emitted) ==
    /\ i' = i + 1
    /\ name_buffer' = buffer
    /\ in_continuation' = continuation
    /\ rows' = emitted
    /\ UNCHANGED <<otherVars, entry, pc, lines, fnVars, ingestVars>>

\* the mutant that leaves the buffer as it is on a noise line
NoiseLineKeepsBuffer ==
    /\ Scanning
    /\ Test.noise
    /\ Advance(name_buffer, FALSE, rows)

\* lines 99-111: header, footer or banner
NoiseLine ==
    /\ Scanning
    /\ Test.noise
    /\ Advance(<<>>, FALSE, rows)

\* the mutant that leaves the buffer as it is when a record is opened
RecordOpenKeepsBuffer ==
    /\ Scanning
    /\ ~Test.noise
    /\ Test.opening
    /\ Advance(name_buffer, TRUE, Append(rows, RawTuple(name_buffer, Line)))

\* the mutant in which a record opened right after another takes its place
RecordOpenOverLast ==
    /\ Scanning
    /\ ~Test.noise
    /\ Test.opening
    /\ Advance(<<>>, TRUE,
               Append(IF in_continuation /\ rows # <<>>
                      THEN SubSeq(rows, 1, Len(rows) - 1) ELSE rows,
                      RawTuple(name_buffer, Line)))

\* the mutant that tests for a record-opening line before it tests for noise
RecordOpenFirst ==
    /\ Scanning
    /\ Test.opening
    /\ Advance(<<>>, TRUE, Append(rows, RawTuple(name_buffer, Line)))

\* lines 116-149: SKU and prices on the same line
RecordOpen ==
    /\ Scanning
    /\ ~Test.noise
    /\ Test.opening
    /\ Advance(<<>>, TRUE, Append(rows, Tuple(name_buffer, Line)))

\* the mutant that buffers the line that starts a new product and stays in
\* continuation mode
ContinuationKeywordStaysOn ==
    /\ Scanning
    /\ ~Test.noise
    /\ ~Test.opening
    /\ in_continuation
    /\ Test.keyword
    /\ Advance(Append(name_buffer, Line), TRUE, rows)

\* lines 151-202: after a product, a line that starts a new product
ContinuationKeyword ==
    /\ Scanning
    /\ ~Test.noise
    /\ ~Test.opening
    /\ in_continuation
    /\ Test.keyword
    /\ Advance(Append(name_buffer, Line), FALSE, rows)

\* the mutant whose loose-price branch in continuation mode lacks its i += 1
ContinuationStrayPriceStays ==
    /\ Scanning
    /\ ~Test.noise
    /\ ~Test.opening
    /\ in_continuation
    /\ ~Test.keyword
    /\ Test.dollar
    /\ UNCHANGED vars

\* lines 204-205: after a product, a loose price without SKU
ContinuationStrayPrice ==
    /\ Scanning
    /\ ~Test.noise
    /\ ~Test.opening
    /\ in_continuation
    /\ ~Test.keyword
    /\ Test.dollar
    /\ Advance(name_buffer, in_continuation, rows)

\* the mutant that keeps a line of technical description as a name fragment
ContinuationDescriptionBuffers ==
    /\ Scanning
    /\ ~Test.noise
    /\ ~Test.opening
    /\ in_continuation
    /\ ~Test.keyword
    /\ ~Test.dollar
    /\ Advance(Append(name_buffer, Line), in_continuation, rows)

\* lines 207-208: after a product, a line of technical description
ContinuationDescription ==
    /\ Scanning
    /\ ~Test.noise
    /\ ~Test.opening
    /\ in_continuation
    /\ ~Test.keyword
    /\ ~Test.dollar
    /\ Advance(name_buffer, in_continuation, rows)

\* the mutant that drops the buffered fragments with a price without SKU
DefaultStrayPriceResets ==
    /\ Scanning
    /\ ~Test.noise
    /\ ~Test.opening
    /\ ~in_continuation
    /\ Test.dollar
    /\ Advance(<<>>, in_continuation, rows)

\* lines 213-214: a price without SKU, not in continuation
DefaultStrayPrice ==
    /\ Scanning
    /\ ~Test.noise
    /\ ~Test.opening
    /\ ~in_continuation
    /\ Test.dollar
    /\ Advance(name_buffer, in_continuation, rows)

\* lines 215-218: part of the name of the next product
DefaultNameLine ==
    /\ Scanning
    /\ ~Test.noise
    /\ ~Test.opening
    /\ ~in_continuation
    /\ ~Test.dollar
    /\ Advance(Append(name_buffer, Line), in_continuation, rows)

\* line 220: return rows, to the caller (line 253 when ingest_idc_pdf called)
ScanReturn ==
    /\ pc = "scan"
    /\ i >= Len(lines)
    /\ pc' = IF entry = "ingest_idc_pdf" THEN "assemble" ELSE "done"
    /\ UNCHANGED <<otherVars, entry, scanVars, fnVars, ingestVars>>

\* lines 87-93: the state when the loop is entered
ScanEntry(input) ==
    /\ lines = input
    /\ i = 0
    /\ name_buffer = <<>>
    /\ in_continuation = FALSE
    /\ rows = <<>>

NoCall == arg = "" /\ arg2 = "" /\ ret = None /\ ret2 = None

\* ingest_idc_pdf is not running
NoIngest ==
    /\ input_path = ""
    /\ supplier_name = ""
    /\ pdf = [readable |-> FALSE, pages |-> <<>>]
    /\ page = 0
    /\ all_lines = <<>>
    /\ handle = "closed"
    /\ logger_level = "NOTSET"
    /\ original_level = "NOTSET"
    /\ exc = None
    /\ out = <<>>
    /\ df = None

\* idc_pdf.py line 223: importing the module registers ingest_idc_pdf; a dict
\* is the sequence of its <<key, value>> entries in insertion order
RegistryAfterImport == << <<"idc_pdf", "ingest_idc_pdf">> >>

\* no call of the registry in progress or made
NoResult == [op |-> "", name |-> "", outcome |-> "", value |-> "", message |-> ""]
NoLookup == REGISTRY = RegistryAfterImport /\ result = NoResult

\* main is not running
NoMain ==
    cli = [at |-> "", provider |-> "", out_path |-> "", writable |-> FALSE,
           calls |-> <<>>, written |-> None, printed |-> None]

\* no concurrent passes
NoPasses == passes = <<>>

----------------------------------------------------------------------------
(* _extract_rows_from_text as a function of its argument *)

\* lines 96-218: one iteration of the loop on line l, from the buffer, flag
\* and rows of st
ScanStep(st, l) ==
    LET t == LineTests[l]
    IN  IF t.noise
        THEN [name_buffer |-> <<>>, in_continuation |-> FALSE, rows |-> st.rows]
        ELSE IF t.opening
        THEN [name_buffer |-> <<>>, in_continuation |-> TRUE,
              rows |-> Append(st.rows, RawTuple(st.name_buffer, t.line))]
        ELSE IF st.in_continuation
        THEN IF t.keyword
             THEN [name_buffer |-> Append(st.name_buffer, t.line),
                   in_continuation |-> FALSE, rows |-> st.rows]
             ELSE st
        ELSE IF t.dollar THEN st
        ELSE [name_buffer |-> Append(st.name_buffer, t.line),
              in_continuation |-> FALSE, rows |-> st.rows]

\* lines 87-218: the buffer, flag and rows after the loop has run over ls
RECURSIVE ScanAll(_)
ScanAll(ls) ==
    IF ls = <<>>
    THEN [name_buffer |-> <<>>, in_continuation |-> FALSE, rows |-> <<>>]
    ELSE ScanStep(ScanAll(SubSeq(ls, 1, Len(ls) - 1)), ls[Len(ls)])

\* lines 75-220: the rows returned for ls
_extract_rows_from_text(ls) == ScanAll(ls).rows

----------------------------------------------------------------------------
(* The reconstructor called on its own, as the tests call it *)

LineSeqs == UNION {[1..k -> LinePool] : k \in 0..MaxLines}

Init ==
    /\ entry = "_extract_rows_from_text"
    /\ pc = "scan"
    /\ \E input \in LineSeqs : ScanEntry(input)
    /\ NoCall
    /\ NoIngest
    /\ NoLookup
    /\ NoMain
    /\ NoPasses

Next ==
    \/ NoiseLine
    \/ RecordOpen
    \/ ContinuationKeyword
    \/ ContinuationStrayPrice
    \/ ContinuationDescription
    \/ DefaultStrayPrice
    \/ DefaultNameLine
    \/ ScanReturn

Spec == Init /\ [][Next]_vars

\* the reconstructor called on one record-opening line
InitTiers ==
    /\ entry = "_extract_rows_from_text"
    /\ pc = "scan"
    /\ \E l \in TierLines : ScanEntry(<<l>>)
    /\ NoCall
    /\ NoIngest
    /\ NoLookup
    /\ NoMain
    /\ NoPasses

NextTiers == RecordOpen \/ ScanReturn

SpecTiers == InitTiers /\ [][NextTiers]_vars

\* the reconstructor called on a record-opening line, one of the lines met
\* right after a record, and at most MaxAfter lines more
InitKeyword ==
    /\ entry = "_extract_rows_from_text"
    /\ pc = "scan"
    /\ \E first \in {l \in LinePool : IsRecordOpening(l) /\ ~IsNoise(l)} :
       \E second \in KeywordLines :
       \E rest \in UNION {[1..k -> AfterLines] : k \in 0..MaxAfter} :
           ScanEntry(<<first, second>> \o rest)
    /\ NoCall
    /\ NoIngest
    /\ NoLookup
    /\ NoMain
    /\ NoPasses

SpecKeyword == InitKeyword /\ [][Next]_vars

\* the scan as the interpreter runs it: the loop does not stop while a step of
\* it can be taken
FairSpec == Spec /\ WF_vars(Next)

----------------------------------------------------------------------------
(* The normalisers called on their own, as the tests call them *)

\* the strings of at most n characters of an alphabet
RECURSIVE Strings(_, _)
Strings(alphabet, n) ==
    IF n = 0 THEN {""}
    ELSE LET shorter == Strings(alphabet, n - 1)
         IN  shorter \cup {t \o c : t \in shorter, c \in alphabet}

\* the scan is not running
NoScan == ScanEntry(<<>>)

PriceExamples ==
    {"$1.398,88 + iva", "$138.22", "1398,88", "1.234,56", "$ 1.234,56",
     "sin precio", "abc.def,ghi", "$1.200,00", "1.234.567,8", "x 5."}

PriceInputs ==
    Strings({"$", " ", "7", "0", ".", ",", "x"}, MaxPriceLen) \cup PriceExamples

InitPrice ==
    /\ entry = "_parse_price_to_float"
    /\ pc = "call"
    /\ arg \in PriceInputs
    /\ arg2 = ""
    /\ ret = None
    /\ ret2 = None
    /\ NoScan
    /\ NoIngest
    /\ NoLookup
    /\ NoMain
    /\ NoPasses

\* lines 24-46
ParsePriceCall ==
    /\ entry = "_parse_price_to_float"
    /\ pc = "call"
    /\ ret' = _parse_price_to_float(arg)
    /\ pc' = "done"
    /\ UNCHANGED <<otherVars, entry, arg, arg2, ret2, scanVars, ingestVars>>

NextPrice == ParsePriceCall

SpecPrice == InitPrice /\ [][NextPrice]_vars

\* the pieces a stock text is made of
StockTokens == {"+", "5", "12", " ", "UNIDADES", "unidades", "x"}

StockExamples ==
    {"10 UNIDADES", "+50 UNIDADES", "25 unidades",
     "Stock: 100 UNIDADES disponibles", "sin stock",
     "+100 UniDades", "007  unidades en stock", "3 UNIDADE", "UNIDADES"}

\* the concatenations of at most n pieces
RECURSIVE Pieces(_)
Pieces(n) ==
    IF n = 0 THEN {""}
    ELSE LET shorter == Pieces(n - 1)
         IN  shorter \cup {t \o c : t \in shorter, c \in StockTokens}

StockInputs == Pieces(MaxStockParts) \cup StockExamples

\* the text without the '+' signs of its integers: a '+' that stands before a
\* digit and not after one
RECURSIVE Unsigned(_, _)
Unsigned(t, p) ==
    IF p > Len(t) THEN ""
    ELSE IF /\ Chr(t, p) = "+"
            /\ p < Len(t) /\ IsDigit(Chr(t, p + 1))
            /\ (p = 1 \/ ~IsDigit(Chr(t, p - 1)))
    THEN Unsigned(t, p + 1)
    ELSE Chr(t, p) \o Unsigned(t, p + 1)

\* the text with the case of every letter changed
RECURSIVE SwapCase(_)
SwapCase(t) ==
    IF t = "" THEN ""
    ELSE LET c == Chr(t, 1)
         IN  (IF c \in DOMAIN UpperOf THEN UpperOf[c]
              ELSE IF c \in DOMAIN LowerOf THEN LowerOf[c]
              ELSE c) \o SwapCase(Tail(t))

\* the second call is on the same text without its signs, or in the other
\* letter case
InitStock ==
    /\ entry = "_parse_stock"
    /\ pc = "call"
    /\ arg \in StockInputs
    /\ arg2 \in {Unsigned(arg, 1), SwapCase(arg)}
    /\ ret = None
    /\ ret2 = None
    /\ NoScan
    /\ NoIngest
    /\ NoLookup
    /\ NoMain
    /\ NoPasses

\* lines 49-58
ParseStockCall ==
    /\ entry = "_parse_stock"
    /\ pc = "call"
    /\ ret' = _parse_stock(arg)
    /\ pc' = "again"
    /\ UNCHANGED <<otherVars, entry, arg, arg2, ret2, scanVars, ingestVars>>

\* lines 49-58, on the second text
ParseStockAgain ==
    /\ entry = "_parse_stock"
    /\ pc = "again"
    /\ ret2' = _parse_stock(arg2)
    /\ pc' = "done"
    /\ UNCHANGED <<otherVars, entry, arg, arg2, ret, scanVars, ingestVars>>

NextStock ==
    \/ ParseStockCall
    \/ ParseStockAgain

SpecStock == InitStock /\ [][NextStock]_vars

NameExamples ==
    {"Notebook    HP     ProBook", "  Notebook HP  ", "Notebook\nHP\nProBook"}

\* a null name, or a string
NameInputs ==
    {None} \cup
    {Some(t) : t \in Strings({"a", "b", " ", "\n", "\t"}, MaxNameLen)
                     \cup NameExamples}

InitName ==
    /\ entry = "_cleanup_name"
    /\ pc = "call"
    /\ arg \in NameInputs
    /\ arg2 = None
    /\ ret = ""
    /\ ret2 = ""
    /\ NoScan
    /\ NoIngest
    /\ NoLookup
    /\ NoMain
    /\ NoPasses

\* lines 61-64
CleanupNameCall ==
    /\ entry = "_cleanup_name"
    /\ pc = "call"
    /\ ret' = _cleanup_name(arg)
    /\ pc' = "again"
    /\ UNCHANGED <<otherVars, entry, arg, arg2, ret2, scanVars, ingestVars>>

\* lines 61-64, on the result of the first call
CleanupNameAgain ==
    /\ entry = "_cleanup_name"
    /\ pc = "again"
    /\ ret2' = _cleanup_name(Some(ret))
    /\ pc' = "done"
    /\ UNCHANGED <<otherVars, entry, arg, arg2, ret, scanVars, ingestVars>>

NextName ==
    \/ CleanupNameCall
    \/ CleanupNameAgain

SpecName == InitName /\ [][NextName]_vars

----------------------------------------------------------------------------
(* ingest_idc_pdf *)

Ingesting(at) == entry = "ingest_idc_pdf" /\ pc = at

\* lines 228-233: all_lines = [] and the level of the logger is saved
SaveLevel ==
    /\ Ingesting("enter")
    /\ all_lines' = <<>>
    /\ original_level' = logger_level
    /\ pc' = "set_level"
    /\ UNCHANGED <<otherVars, entry, scanVars, fnVars, input_path, supplier_name, pdf,
                   page, handle, logger_level, exc, out, df>>

\* line 234: pdfminer_logger.setLevel(logging.ERROR)
SetLevelError ==
    /\ Ingesting("set_level")
    /\ logger_level' = "ERROR"
    /\ pc' = "open"
    /\ UNCHANGED <<otherVars, entry, scanVars, fnVars, input_path, supplier_name, pdf,
                   page, all_lines, handle, original_level, exc, out, df>>

\* line 242: pdfplumber.open(str(p)) gives the handle
OpenDocument ==
    /\ Ingesting("open")
    /\ pdf.readable
    /\ handle' = "open"
    /\ page' = 0
    /\ pc' = "pages"
    /\ UNCHANGED <<otherVars, entry, scanVars, fnVars, input_path, supplier_name, pdf,
                   all_lines, logger_level, original_level, exc, out, df>>

\* line 242: pdfplumber.open(str(p)) raises
OpenRaises ==
    /\ Ingesting("open")
    /\ ~pdf.readable
    /\ exc' = Some("open")
    /\ pc' = "finally"
    /\ UNCHANGED <<otherVars, entry, scanVars, fnVars, input_path, supplier_name, pdf,
                   page, all_lines, handle, logger_level, original_level, out,
                   df>>

\* the mutant in which a page boundary is a blank line of its own
ExtractPageBreaks ==
    /\ Ingesting("pages")
    /\ exc = None
    /\ page < Len(pdf.pages)
    /\ pdf.pages[page + 1].kind # "error"
    /\ all_lines' = (IF page > 0 THEN Append(all_lines, "") ELSE all_lines)
                        \o PageLines(PageText(pdf.pages[page + 1]))
    /\ page' = page + 1
    /\ UNCHANGED <<otherVars, entry, pc, scanVars, fnVars, input_path, supplier_name, pdf,
                   handle, logger_level, original_level, exc, out, df>>

\* lines 243-248: the lines of the next page are collected
ExtractPage ==
    /\ Ingesting("pages")
    /\ exc = None
    /\ page < Len(pdf.pages)
    /\ pdf.pages[page + 1].kind # "error"
    /\ all_lines' = all_lines \o PageLines(PageText(pdf.pages[page + 1]))
    /\ page' = page + 1
    /\ UNCHANGED <<otherVars, entry, pc, scanVars, fnVars, input_path, supplier_name, pdf,
                   handle, logger_level, original_level, exc, out, df>>

\* line 244: page.extract_text() raises
ExtractRaises ==
    /\ Ingesting("pages")
    /\ exc = None
    /\ page < Len(pdf.pages)
    /\ pdf.pages[page + 1].kind = "error"
    /\ exc' = Some("extract_text")
    /\ UNCHANGED <<otherVars, entry, pc, scanVars, fnVars, input_path, supplier_name, pdf,
                   page, all_lines, handle, logger_level, original_level, out,
                   df>>

\* the with block left without closing the handle when an exception is in flight
CloseDocumentOnSuccess ==
    /\ Ingesting("pages")
    /\ exc # None \/ page >= Len(pdf.pages)
    /\ handle' = IF exc = None THEN "closed" ELSE handle
    /\ pc' = "finally"
    /\ UNCHANGED <<otherVars, entry, scanVars, fnVars, input_path, supplier_name, pdf,
                   page, all_lines, logger_level, original_level, exc, out, df>>

\* line 242: the with block is left, after the last page or by the exception,
\* and the handle is closed
CloseDocument ==
    /\ Ingesting("pages")
    /\ exc # None \/ page >= Len(pdf.pages)
    /\ handle' = "closed"
    /\ pc' = "finally"
    /\ UNCHANGED <<otherVars, entry, scanVars, fnVars, input_path, supplier_name, pdf,
                   page, all_lines, logger_level, original_level, exc, out, df>>

\* the mutant that restores the level after the with block, not in a finally
RestoreLevelOnSuccess ==
    /\ Ingesting("finally")
    /\ logger_level' = IF exc = None THEN original_level ELSE logger_level
    /\ pc' = IF exc = None THEN "extract" ELSE "raised"
    /\ UNCHANGED <<otherVars, entry, scanVars, fnVars, input_path, supplier_name, pdf,
                   page, all_lines, handle, original_level, exc, out, df>>

\* lines 249-251: the level of the logger is restored; an exception in flight
\* goes on to the caller
RestoreLevel ==
    /\ Ingesting("finally")
    /\ logger_level' = original_level
    /\ pc' = IF exc = None THEN "extract" ELSE "raised"
    /\ UNCHANGED <<otherVars, entry, scanVars, fnVars, input_path, supplier_name, pdf,
                   page, all_lines, handle, original_level, exc, out, df>>

\* line 253: _extract_rows_from_text(all_lines) is entered (lines 87-93)
CallExtract ==
    /\ Ingesting("extract")
    /\ lines' = all_lines
    /\ i' = 0
    /\ name_buffer' = <<>>
    /\ in_continuation' = FALSE
    /\ rows' = <<>>
    /\ pc' = "scan"
    /\ UNCHANGED <<otherVars, entry, fnVars, ingestVars>>

\* the assembler that leaves out a tuple whose stock text gives no number
AssembleRecordsWithStock ==
    /\ Ingesting("assemble")
    /\ out' = SelectSeq([k \in 1..Len(rows) |->
                            AssembleRecord(rows[k], supplier_name, input_path)],
                        LAMBDA r : r.stock # None)
    /\ pc' = "frame"
    /\ UNCHANGED <<otherVars, entry, scanVars, fnVars, input_path, supplier_name, pdf,
                   page, all_lines, handle, logger_level, original_level, exc,
                   df>>

\* lines 255-275: one dict per tuple, in order
AssembleRecords ==
    /\ Ingesting("assemble")
    /\ out' = [k \in 1..Len(rows) |->
                  AssembleRecord(rows[k], supplier_name, input_path)]
    /\ pc' = "frame"
    /\ UNCHANGED <<otherVars, entry, scanVars, fnVars, input_path, supplier_name, pdf,
                   page, all_lines, handle, logger_level, original_level, exc,
                   df>>

\* lines 277-286: the table is built and returned
ReturnFrame ==
    /\ Ingesting("frame")
    /\ df' = Some(BuildFrame(out))
    /\ pc' = "done"
    /\ UNCHANGED <<otherVars, entry, scanVars, fnVars, input_path, supplier_name, pdf,
                   page, all_lines, handle, logger_level, original_level, exc,
                   out>>

\* the documents: unreadable, or readable with at most MaxPages pages
Documents ==
    {[readable |-> FALSE, pages |-> <<>>]}
    \cup {[readable |-> TRUE, pages |-> ps] :
            ps \in UNION {[1..k -> PagePool] : k \in 0..MaxPages}}

Paths == {"test.pdf", "/ruta/completa/archivo.pdf"}

LoggerLevels == {"NOTSET", "WARNING"}

InitIngest ==
    /\ entry = "ingest_idc_pdf"
    /\ pc = "enter"
    /\ input_path \in Paths
    /\ supplier_name = "IDC"
    /\ pdf \in Documents
    /\ page = 0
    /\ all_lines = <<>>
    /\ handle = "closed"
    /\ logger_level \in LoggerLevels
    /\ original_level = "NOTSET"
    /\ exc = None
    /\ out = <<>>
    /\ df = None
    /\ NoScan
    /\ NoCall
    /\ NoLookup
    /\ NoMain
    /\ NoPasses

NextIngest ==
    \/ SaveLevel
    \/ SetLevelError
    \/ OpenDocument
    \/ OpenRaises
    \/ ExtractPage
    \/ ExtractRaises
    \/ CloseDocument
    \/ RestoreLevel
    \/ CallExtract
    \/ NoiseLine
    \/ RecordOpen
    \/ ContinuationKeyword
    \/ ContinuationStrayPrice
    \/ ContinuationDescription
    \/ DefaultStrayPrice
    \/ DefaultNameLine
    \/ ScanReturn
    \/ AssembleRecords
    \/ ReturnFrame

SpecIngest == InitIngest /\ [][NextIngest]_vars

----------------------------------------------------------------------------
(* ingest_idc_pdf: two passes at once, one thread each *)

\* lines 236-248: the lines of the pages before the first page whose
\* extraction raises
RECURSIVE LinesRead(_)
LinesRead(pages) ==
    IF pages = <<>> \/ Head(pages).kind = "error" THEN <<>>
    ELSE PageLines(PageText(Head(pages))) \o LinesRead(Tail(pages))

\* lines 236-248: what opening and reading document d leaves in the pass: the
\* exception in flight and the lines collected
ReadDocument(d) ==
    IF ~d.readable THEN [exc |-> Some("open"), all_lines |-> <<>>]
    ELSE [exc |-> IF \E k \in 1..Len(d.pages) : d.pages[k].kind = "error"
                  THEN Some("extract_text") ELSE None,
          all_lines |-> LinesRead(d.pages)]

\* lines 253-286: the table returned for the lines collected
FrameOf(ls, supplier, path) ==
    LET rs == _extract_rows_from_text(ls)
    IN  BuildFrame([k \in 1..Len(rs) |-> AssembleRecord(rs[k], supplier, path)])

\* thread p is at position at of its pass
PassAt(p, at) == entry = "two passes" /\ passes[p].at = at

\* the locals of thread p become those of loc; the other thread keeps its own
PassStep(p, loc) ==
    /\ passes' = [passes EXCEPT ![p] = loc]
    /\ UNCHANGED <<entry, pc, scanVars, fnVars, input_path, supplier_name, pdf,
                   page, all_lines, handle, original_level, exc, out, df,
                   REGISTRY, result, cli>>

\* line 233 in thread p: original_level = pdfminer_logger.level reads the
\* level of the one "pdfminer" logger of the process
PassSaveLevel(p) ==
    /\ PassAt(p, "enter")
    /\ PassStep(p, [passes[p] EXCEPT !.original_level = logger_level,
                                     !.at = "set_level"])
    /\ UNCHANGED logger_level

\* line 234 in thread p: pdfminer_logger.setLevel(logging.ERROR)
PassSetLevelError(p) ==
    /\ PassAt(p, "set_level")
    /\ logger_level' = "ERROR"
    /\ PassStep(p, [passes[p] EXCEPT !.at = "open"])

\* lines 236-248 in thread p: the document is opened, read and closed; only
\* the locals of the pass and its own document are touched
PassReadDocument(p) ==
    /\ PassAt(p, "open")
    /\ LET got == ReadDocument(passes[p].pdf)
       IN  PassStep(p, [passes[p] EXCEPT !.exc = got.exc,
                                         !.all_lines = got.all_lines,
                                         !.at = "finally"])
    /\ UNCHANGED logger_level

\* lines 249-251 in thread p: pdfminer_logger.setLevel(original_level)
PassRestoreLevel(p) ==
    /\ PassAt(p, "finally")
    /\ logger_level' = passes[p].original_level
    /\ PassStep(p, [passes[p] EXCEPT
                      !.at = IF passes[p].exc = None THEN "extract" ELSE "raised"])

\* lines 253-286 in thread p: the rows, the records and the table, all local
PassReturnFrame(p) ==
    /\ PassAt(p, "extract")
    /\ PassStep(p, [passes[p] EXCEPT
                      !.df = Some(FrameOf(passes[p].all_lines,
                                          passes[p].supplier_name,
                                          passes[p].input_path)),
                      !.at = "done"])
    /\ UNCHANGED logger_level

\* the documents of the two passes: one page or none, or unreadable
PassDocuments ==
    {d \in Documents :
        /\ Len(d.pages) <= 1
        /\ \A k \in 1..Len(d.pages) :
              \/ d.pages[k].kind = "error"
              \/ d.pages[k] \in CompletePages
              \/ d.pages[k] = TextPage("Sin datos validos")}

\* a pass about to start on document d at path; before is no local of the
\* code: it records the level of the logger before either pass started
PassEntered(d, path, level) ==
    [at |-> "enter", input_path |-> path, supplier_name |-> "IDC", pdf |-> d,
     all_lines |-> <<>>, original_level |-> "NOTSET", exc |-> None,
     df |-> None, before |-> level]

InitTwo ==
    /\ entry = "two passes"
    /\ pc = "idle"
    /\ logger_level \in LoggerLevels
    /\ \E d1 \in PassDocuments : \E d2 \in PassDocuments \ {d1} :
          passes = <<PassEntered(d1, "test.pdf", logger_level),
                     PassEntered(d2, "/ruta/completa/archivo.pdf", logger_level)>>
    /\ input_path = ""
    /\ supplier_name = ""
    /\ pdf = [readable |-> FALSE, pages |-> <<>>]
    /\ page = 0
    /\ all_lines = <<>>
    /\ handle = "closed"
    /\ original_level = "NOTSET"
    /\ exc = None
    /\ out = <<>>
    /\ df = None
    /\ NoScan
    /\ NoCall
    /\ NoLookup
    /\ NoMain

NextTwo ==
    \E p \in 1..2 :
        \/ PassSaveLevel(p)
        \/ PassSetLevelError(p)
        \/ PassReadDocument(p)
        \/ PassRestoreLevel(p)
        \/ PassReturnFrame(p)

SpecTwo == InitTwo /\ [][NextTwo]_vars

----------------------------------------------------------------------------
(* providers/registry.py *)

\* list(d.keys()) of a dict
Keys(d) == [k \in 1..Len(d) |-> d[k][1]]

\* name in d
HasKey(d, name) == \E k \in 1..Len(d) : d[k][1] = name

\* d[name] of a key the dict holds
Get(d, name) == d[CHOOSE k \in 1..Len(d) : d[k][1] = name][2]

\* the mutant that empties the dict before it stores the entry
SetItemAlone(d, name, func) == << <<name, func>> >>

\* d[name] = func: the value of a key the dict holds is replaced where it is,
\* a new key goes last
SetItem(d, name, func) ==
    IF HasKey(d, name)
    THEN [k \in 1..Len(d) |-> IF d[k][1] = name THEN <<name, func>> ELSE d[k]]
    ELSE Append(d, <<name, func>>)

\* repr of a list of str without quotes or backslashes: ['a', 'b']
RECURSIVE ReprItems(_)
ReprItems(keys) ==
    IF keys = <<>> THEN ""
    ELSE IF Len(keys) = 1 THEN "'" \o keys[1] \o "'"
    ELSE "'" \o keys[1] \o "', " \o ReprItems(Tail(keys))

ReprList(keys) == "[" \o ReprItems(keys) \o "]"

\* the mutant that lists no key
NotRegisteredMessageBare(name, d) == "Proveedor no registrado: " \o name \o ". "

\* lines 18-20: the text of the ValueError
NotRegisteredMessage(name, d) ==
    "Proveedor no registrado: " \o name \o ". "
    \o "Disponibles: " \o ReprList(Keys(d))

\* lines 8-13: register(name) applied to func, as @register(name) does
Register(name, func) ==
    /\ entry = "registry"
    /\ REGISTRY' = SetItem(REGISTRY, name, func)
    /\ result' = [op |-> "register", name |-> name, outcome |-> "returned",
                  value |-> func, message |-> ""]
    /\ UNCHANGED <<entry, pc, scanVars, fnVars, ingestVars, cli, passes>>

\* lines 16-21: get_provider(name) for a key of REGISTRY
GetProvider(name) ==
    /\ entry = "registry"
    /\ HasKey(REGISTRY, name)
    /\ result' = [op |-> "get_provider", name |-> name, outcome |-> "returned",
                  value |-> Get(REGISTRY, name), message |-> ""]
    /\ UNCHANGED <<entry, pc, scanVars, fnVars, ingestVars, REGISTRY, cli,
                   passes>>

\* lines 17-20: get_provider(name) for any other name
GetProviderRaises(name) ==
    /\ entry = "registry"
    /\ ~HasKey(REGISTRY, name)
    /\ result' = [op |-> "get_provider", name |-> name, outcome |-> "ValueError",
                  value |-> "", message |-> NotRegisteredMessage(name, REGISTRY)]
    /\ UNCHANGED <<entry, pc, scanVars, fnVars, ingestVars, REGISTRY, cli,
                   passes>>

\* the provider names and functions of the tests
ProviderNames == {"idc", "idc_pdf", "tecnomega", "proveedor_inexistente"}
ProviderFunctions == {"get_idc_data", "ingest_idc_pdf"}

\* line 5: REGISTRY = {}
InitRegistry ==
    /\ entry = "registry"
    /\ pc = "idle"
    /\ REGISTRY = <<>>
    /\ result = NoResult
    /\ NoScan
    /\ NoCall
    /\ NoIngest
    /\ NoMain
    /\ NoPasses

NextRegistry ==
    \/ \E name \in ProviderNames, func \in ProviderFunctions : Register(name, func)
    \/ \E name \in ProviderNames : GetProvider(name)
    \/ \E name \in ProviderNames : GetProviderRaises(name)

SpecRegistry == InitRegistry /\ [][NextRegistry]_vars

----------------------------------------------------------------------------
(* run.py: main *)

\* main is at position at
MainAt(at) == entry = "main" /\ cli.at = at

\* a step of main to position at, after the call of what ("" for none), that
\* leaves the file written and the line printed as given
MainStep(at, what, written, printed) ==
    /\ cli' = [cli EXCEPT !.at = at,
                          !.calls = IF what = "" THEN @ ELSE Append(@, what),
                          !.written = written,
                          !.printed = printed]
    /\ UNCHANGED <<entry, pc, scanVars, fnVars, input_path, supplier_name, pdf,
                   page, handle, logger_level, original_level, out, passes>>

\* run.py loaded without importing the provider module
MainImportNothing ==
    /\ MainAt("import")
    /\ REGISTRY' = REGISTRY
    /\ MainStep("lookup", "", cli.written, cli.printed)
    /\ UNCHANGED <<result, all_lines, exc, df>>

\* line 7: import src.providers.idc_pdf runs @register("idc_pdf") (idc_pdf.py
\* line 223) when run.py is loaded, before main is called
MainImport ==
    /\ MainAt("import")
    /\ REGISTRY' = SetItem(REGISTRY, "idc_pdf", "ingest_idc_pdf")
    /\ MainStep("lookup", "", cli.written, cli.printed)
    /\ UNCHANGED <<result, all_lines, exc, df>>

\* line 18: fn = get_provider(args.provider) returns the function or raises
MainGetProvider ==
    /\ MainAt("lookup")
    /\ result' =
          IF HasKey(REGISTRY, cli.provider)
          THEN [op |-> "get_provider", name |-> cli.provider,
                outcome |-> "returned", value |-> Get(REGISTRY, cli.provider),
                message |-> ""]
          ELSE [op |-> "get_provider", name |-> cli.provider,
                outcome |-> "ValueError", value |-> "",
                message |-> NotRegisteredMessage(cli.provider, REGISTRY)]
    /\ MainStep(IF HasKey(REGISTRY, cli.provider) THEN "ingest" ELSE "raised",
                "get_provider", cli.written, cli.printed)
    /\ UNCHANGED <<REGISTRY, all_lines, exc, df>>

\* line 19: df = fn(args.input, args.supplier), fn being ingest_idc_pdf: the
\* whole call, which returns the table or raises
MainIngest ==
    /\ MainAt("ingest")
    /\ result.value = "ingest_idc_pdf"
    /\ LET got == ReadDocument(pdf)
       IN  /\ all_lines' = got.all_lines
           /\ exc' = got.exc
           /\ df' = IF got.exc = None
                    THEN Some(FrameOf(got.all_lines, supplier_name, input_path))
                    ELSE None
           /\ MainStep(IF got.exc = None THEN "export" ELSE "raised",
                       "ingest_idc_pdf", cli.written, cli.printed)
    /\ UNCHANGED <<REGISTRY, result>>

\* lines 21-22 and exporter.py lines 5-8: export_excel(df, out_path) makes the
\* directory and writes the table, or raises before anything is written
MainExport ==
    /\ MainAt("export")
    /\ MainStep(IF cli.writable THEN "print" ELSE "raised", "export_excel",
                IF cli.writable
                THEN Some([path |-> cli.out_path, table |-> The(df)])
                ELSE cli.written,
                cli.printed)
    /\ UNCHANGED <<REGISTRY, result, all_lines, exc, df>>

\* line 23: print(f"Exportado {out_path} | filas={len(df)}")
MainPrint ==
    /\ MainAt("print")
    /\ MainStep("done", "print", cli.written,
                Some("Exportado " \o cli.out_path \o " | filas="
                     \o ToString(Len(The(df).rows))))
    /\ UNCHANGED <<REGISTRY, result, all_lines, exc, df>>

\* line 15 and the tests: the default of --out, and another path
OutPaths == {"out/idc.xlsx", "salida.xlsx"}

\* lines 11-16: the arguments parsed, nothing imported yet
InitMain ==
    /\ entry = "main"
    /\ pc = "idle"
    /\ \E name \in ProviderNames, path \in OutPaths, w \in BOOLEAN :
          cli = [at |-> "import", provider |-> name, out_path |-> path,
                 writable |-> w, calls |-> <<>>, written |-> None,
                 printed |-> None]
    /\ REGISTRY = <<>>
    /\ result = NoResult
    /\ input_path \in Paths
    /\ supplier_name = "IDC"
    /\ pdf \in PassDocuments
    /\ page = 0
    /\ all_lines = <<>>
    /\ handle = "closed"
    /\ logger_level = "NOTSET"
    /\ original_level = "NOTSET"
    /\ exc = None
    /\ out = <<>>
    /\ df = None
    /\ NoScan
    /\ NoCall
    /\ NoPasses

NextMain ==
    \/ MainImport
    \/ MainGetProvider
    \/ MainIngest
    \/ MainExport
    \/ MainPrint

SpecMain == InitMain /\ [][NextMain]_vars

----------------------------------------------------------------------------
(* The vocabulary of the statements about the scan, from their wording *)

AllLines == KnownLines \cup {Strip(l) : l \in KnownLines}

\* the first position of character c in t, or Len(t) + 1
FirstAt(t, c, p) ==
    IF \E k \in p..Len(t) : Chr(t, k) = c
    THEN CHOOSE k \in p..Len(t) :
             Chr(t, k) = c /\ \A j \in p..(k - 1) : Chr(t, j) # c
    ELSE Len(t) + 1

\* a noise line: blank, holds a header or footer phrase, or starts with a
\* banner word or glyph
StatedNoise(t) ==
    \/ t = ""
    \/ \E phrase \in {"SKU IDC", "NOMBRE DEL PRODUCTO", "FORMAS DE PAGO"} :
           Contains(t, phrase)
    \/ \E start \in {"Gratis", BRIEFCASE, BULLET} : StartsWith(t, start)

\* what the statements say of a line, evaluated once per line:
\*   digits   the length of the leading run of digits
\*   priced   digits, then whitespace and more text, with a '$' in the line
\*   opening  a record-opening line
\*   between  the text between the SKU and the first '$'
Stated ==
    [l \in AllLines |->
        LET t == Strip(l)
            digits == RunEnd(t, 1, "\\d") - 1
            priced == /\ digits > 0
                      /\ Len(t) > digits + 1
                      /\ IsSpace(Chr(t, digits + 1))
                      /\ Contains(t, "$")
        IN  [text |-> t,
             noise |-> StatedNoise(t),
             digits |-> digits,
             priced |-> priced,
             opening |-> ~StatedNoise(t) /\ priced /\ digits = 6,
             sku |-> SubSeq(t, 1, digits),
             between |-> SubSeq(t, digits + 1, FirstAt(t, "$", 1) - 1),
             dollar |-> Contains(t, "$")]]

\* the lines already classified, and the record-opening lines among them
Seen == SubSeq(lines, 1, i)
IsOpening(l) == Stated[l].opening
Openings(ls) == SelectSeq(ls, IsOpening)

\* the line the step classifies
Current == lines[i + 1]

----------------------------------------------------------------------------
(* C1 *)

\* C1: the tuples emitted so far are, one for one and in order, the
\* record-opening lines classified so far, each with that line's six-digit run
\* as sku; so nothing is emitted for any other line (a six-digit line without
\* '$' among them) nor for a name buffer left open at the end of the input.
C1_OneTuplePerOpeningLine ==
    LET opened == Openings(Seen)
    IN  /\ Len(rows) = Len(opened)
        /\ \A k \in 1..Len(rows) :
              /\ rows[k].sku = Stated[opened[k]].sku
              /\ Len(rows[k].sku) = 6

\* two records in order, a six-digit line without '$' that emitted nothing and a
\* name buffer left open at the end
C1_Witness ==
    /\ pc = "done"
    /\ Len(lines) = 3
    /\ Len(rows) = 1
    /\ rows[1].sku = "678901"
    /\ lines[1] = "123456 texto sin precio"
    /\ lines[3] = "Laptop Producto A"
    /\ name_buffer = <<"Laptop Producto A">>

----------------------------------------------------------------------------
(* C2 *)

\* the only record-opening line of the input is line j
OnlyOpeningAt(j) ==
    /\ j \in 1..Len(lines)
    /\ IsOpening(lines[j])
    /\ \A k \in 1..Len(lines) : IsOpening(lines[k]) => k = j

IsName(l) == ~Stated[l].noise
EndsWith(t, e) == Len(t) >= Len(e) /\ SubSeq(t, Len(t) - Len(e) + 1, Len(t)) = e

\* C2 as stated: with exactly one record-opening line, the name of the single
\* tuple is made of every prior non-noise line, in order, followed by the text
\* between the SKU and the first '$'.
C2_NameHasEveryPriorLine ==
    \A j \in 1..Len(lines) :
        (pc = "done" /\ OnlyOpeningAt(j)) =>
            /\ Len(rows) = 1
            /\ \A k \in 1..(j - 1) :
                  IsName(lines[k]) =>
                      Contains(rows[1].name, _cleanup_name(Some(lines[k])))
            /\ EndsWith(rows[1].name,
                        _cleanup_name(Some(Stated[lines[j]].between)))

\* the prior lines that reach the name: after the last prior noise line, and
\* without '$'
RECURSIVE Buffered(_)
Buffered(ls) ==
    IF ls = <<>> THEN <<>>
    ELSE LET last == ls[Len(ls)]
             before == SubSeq(ls, 1, Len(ls) - 1)
         IN  IF Stated[last].noise THEN <<>>
             ELSE IF Stated[last].dollar THEN Buffered(before)
             ELSE Append(Buffered(before), Stated[last].text)

\* C2, amended: with exactly one record-opening line, the name of the single
\* tuple is the cleaned join of the prior lines that are not noise, hold no '$'
\* and have no noise line between them and the record-opening line, in order,
\* followed by the text between the SKU and the first '$'.
C2_NameHasBufferedPriorLines ==
    \A j \in 1..Len(lines) :
        (pc = "done" /\ OnlyOpeningAt(j)) =>
            /\ Len(rows) = 1
            /\ rows[1].name =
                   _cleanup_name(Some(Join(
                       Buffered(SubSeq(lines, 1, j - 1))
                       \o <<Stated[lines[j]].between>>)))

\* two prior name lines, one of them with surrounding and doubled blanks
C2_Witness ==
    /\ pc = "done"
    /\ lines = <<"Core i5 8GB", "  Monitor  B ",
                 "123456 Extra $100,00 + iva $95,00 + iva 10 UNIDADES">>
    /\ Len(rows) = 1
    /\ rows[1].name = "Core i5 8GB Monitor B Extra"

----------------------------------------------------------------------------
(* C3 *)

\* a line with a leading run of five or seven digits that is otherwise a
\* well-formed record-opening line
FiveOrSeven(l) ==
    /\ ~Stated[l].noise
    /\ Stated[l].priced
    /\ Stated[l].digits \in {5, 7}

\* C3: the step that classifies such a line emits no tuple and does not switch
\* continuation mode on, whether continuation mode was on or off.
C3_FiveOrSevenDigitsNeverOpen ==
    [][(Scanning /\ FiveOrSeven(Current)) =>
           /\ rows' = rows
           /\ in_continuation' = in_continuation]_vars

\* a five-digit line classified with continuation mode off and a seven-digit
\* line classified with continuation mode on
C3_Witness ==
    /\ i = 3
    /\ Stated[lines[1]].digits = 5 /\ FiveOrSeven(lines[1])
    /\ IsOpening(lines[2])
    /\ Stated[lines[3]].digits = 7 /\ FiveOrSeven(lines[3])
    /\ Len(rows) = 1
    /\ in_continuation

----------------------------------------------------------------------------
(* C4 *)

\* C4: the step that classifies a noise line emits nothing and leaves the name
\* buffer empty and continuation mode off, whatever they were; no noise line
\* is ever in the name buffer, and no name emitted holds the text of a noise
\* line of the input.
C4_NoiseResetsAndNeverNamed ==
    [][/\ (Scanning /\ Stated[Current].noise) =>
              /\ name_buffer' = <<>>
              /\ in_continuation' = FALSE
              /\ rows' = rows
       /\ \A k \in 1..Len(name_buffer') : ~StatedNoise(name_buffer'[k])
       /\ rows' # rows =>
              \A k \in 1..Len(lines) :
                  (Stated[lines[k]].noise /\ Stated[lines[k]].text # "") =>
                      ~Contains(rows'[Len(rows')].name, Stated[lines[k]].text)
      ]_vars

\* a footer line classified in continuation mode, and a record opened after it
C4_Witness ==
    /\ i = 3
    /\ IsOpening(lines[1])
    /\ lines[2] = "FORMAS DE PAGO: Efectivo"
    /\ IsOpening(lines[3])
    /\ Len(rows) = 2
    /\ rows[2].name = "Extra"

----------------------------------------------------------------------------
(* C5 *)

\* C5: when a record-opening line directly follows another, the first has its
\* own tuple and the step emits one more, whose name is exactly the cleaned text
\* between its own SKU and its first '$'.
C5_ConsecutiveOpeningsIndependent ==
    [][(Scanning /\ i >= 1 /\ IsOpening(lines[i]) /\ IsOpening(Current)) =>
           /\ Len(rows) >= 1
           /\ rows[Len(rows)].sku = Stated[lines[i]].sku
           /\ Len(rows') = Len(rows) + 1
           /\ SubSeq(rows', 1, Len(rows)) = rows
           /\ rows'[Len(rows')].sku = Stated[Current].sku
           /\ rows'[Len(rows')].name =
                  _cleanup_name(Some(Stated[Current].between))]_vars

\* a record with buffered and pre-price name text, directly followed by one
\* with neither
C5_Witness ==
    /\ i = 3
    /\ lines[1] = "Core i5 8GB"
    /\ lines[2] = "123456 Extra $100,00 + iva $95,00 + iva 10 UNIDADES"
    /\ lines[3] = "678901 $5 + iva"
    /\ Len(rows) = 2
    /\ rows[1].name = "Core i5 8GB Extra"
    /\ rows[2].name = ""

----------------------------------------------------------------------------
(* C6 *)

\* the canonical column order, as stated
CanonicalOrder ==
    <<"supplier", "supplier_sku", "title", "brand", "model", "ean_upc",
      "category", "condition", "cost_x1_usd", "cost_x3_usd", "cost_x6_usd",
      "tax_included", "stock", "eta_text", "source_file">>

\* the lines of the document are all noise lines (none, when it is empty)
OnlyNoise == \A k \in 1..Len(all_lines) : Stated[all_lines[k]].noise

\* C6: the table ingest_idc_pdf returns has exactly the 15 canonical columns, in
\* canonical order, every row holding exactly those columns, whether records
\* were found or not; it has no row when the document is empty or holds only
\* noise lines.
C6_CanonicalColumnsAlways ==
    df # None =>
        LET table == The(df)
        IN  /\ table.columns = CanonicalOrder
            /\ Len(table.columns) = 15
            /\ \A k \in 1..Len(table.rows) :
                  DOMAIN table.rows[k] = {CanonicalOrder[c] : c \in 1..15}
            /\ OnlyNoise => table.rows = <<>>

\* a table returned for a document of two header lines: no row, all columns
C6_Witness ==
    /\ pc = "done"
    /\ df # None
    /\ all_lines = <<"SKU IDC", "NOMBRE DEL PRODUCTO">>
    /\ The(df).rows = <<>>
    /\ The(df).columns = CanonicalOrder

----------------------------------------------------------------------------
(* C7 *)

\* a name line: not noise and without '$'
NameLine(l) == ~Stated[l].noise /\ ~Stated[l].dollar

\* the tiers and stock of the scenario, from the first '$' of the line on
ScenarioTiers == "$1.200,00 + iva $1.150,00 + iva $1.100,00 + iva 50 UNIDADES"

\* the record-opening line '123456 <text> $1.200,00 + iva ... 50 UNIDADES ...'
ScenarioOpening(l) ==
    LET d == FirstAt(l, "$", 1)
    IN  /\ Stated[l].opening
        /\ Stated[l].sku = "123456"
        /\ d + Len(ScenarioTiers) - 1 <= Len(l)
        /\ SubSeq(l, d, d + Len(ScenarioTiers) - 1) = ScenarioTiers

\* the text of a path after its last "/"
RECURSIVE BaseName(_)
BaseName(path) ==
    IF Contains(path, "/") THEN BaseName(Tail(path)) ELSE path

\* C7: for a document whose lines are two name lines and then the
\* record-opening line of the scenario, the table returned has exactly one
\* record, with supplier_sku "123456", costs 1200, 1150 and 1100, stock 50,
\* tax_included "no", source_file the base name of the path, and a title that
\* contains both name lines (as the name normaliser leaves them).
C7_EndToEndScenario ==
    (/\ df # None
     /\ Len(all_lines) = 3
     /\ NameLine(all_lines[1])
     /\ NameLine(all_lines[2])
     /\ ScenarioOpening(all_lines[3])) =>
        LET table == The(df)
        IN  /\ Len(table.rows) = 1
            /\ table.rows[1].supplier_sku = "123456"
            /\ table.rows[1].cost_x1_usd = Some([m |-> 1200, e |-> 0])
            /\ table.rows[1].cost_x3_usd = Some([m |-> 1150, e |-> 0])
            /\ table.rows[1].cost_x6_usd = Some([m |-> 1100, e |-> 0])
            /\ table.rows[1].stock = Some(50)
            /\ table.rows[1].tax_included = "no"
            /\ table.rows[1].source_file = BaseName(input_path)
            /\ ~Contains(table.rows[1].source_file, "/")
            /\ \A k \in 1..2 :
                  Contains(table.rows[1].title,
                           _cleanup_name(Some(all_lines[k])))

\* the complete page of the tests, read from a path with directories
C7_Witness ==
    /\ pc = "done"
    /\ df # None
    /\ input_path = "/ruta/completa/archivo.pdf"
    /\ all_lines =
           <<"Laptop Notebook HP ProBook 450 G8", "Core i5 8GB RAM 256GB SSD",
             "123456 Extra Specs $1.200,00 + iva $1.150,00 + iva $1.100,00 + iva 50 UNIDADES En stock">>
    /\ Len(The(df).rows) = 1
    /\ The(df).rows[1].source_file = "archivo.pdf"
    /\ The(df).rows[1].title =
           "Laptop Notebook HP ProBook 450 G8 Core i5 8GB RAM 256GB SSD Extra Specs"

----------------------------------------------------------------------------
(* C8 *)

\* the first numeric token of a text: the first run of digits, dots and
\* commas, or None
StatedToken(t) ==
    LET starts == {k \in 1..Len(t) : InClass("[0-9.,]", Chr(t, k))}
        first == CHOOSE k \in starts : \A j \in starts : k <= j
        after == {k \in first..Len(t) : ~InClass("[0-9.,]", Chr(t, k))}
        last == IF after = {} THEN Len(t)
                ELSE (CHOOSE k \in after : \A j \in after : k <= j) - 1
    IN  IF starts = {} THEN None ELSE Some(SubSeq(t, first, last))

\* the token with its separators read as stated
StatedSeparators(token) ==
    LET dot == \E k \in 1..Len(token) : Chr(token, k) = "."
        comma == \E k \in 1..Len(token) : Chr(token, k) = ","
    IN  IF dot /\ comma THEN Replace(Replace(token, ".", ""), ",", ".")
        ELSE IF comma THEN Replace(token, ",", ".")
        ELSE token

\* a number: digits with at most one decimal point
ValidNumber(t) ==
    /\ \E k \in 1..Len(t) : IsDigit(Chr(t, k))
    /\ \A k \in 1..Len(t) : IsDigit(Chr(t, k)) \/ Chr(t, k) = "."
    /\ \A j, k \in 1..Len(t) : (Chr(t, j) = "." /\ Chr(t, k) = ".") => j = k

\* C8: the call returns, with the value of the first numeric token of the text
\* once its separators are read as stated ('.' thousands and ',' decimal when
\* both occur, ',' decimal when alone, as written otherwise), and with no value
\* when the text is empty, holds no token, or the token so read is no number.
C8_PriceOfFirstToken ==
    pc = "done" =>
        LET token == StatedToken(arg)
        IN  /\ (arg = "" \/ token = None) => ret = None
            /\ token # None =>
                  LET read == StatedSeparators(The(token))
                  IN  /\ ~ValidNumber(read) => ret = None
                      /\ ValidNumber(read) => ret = ParseFloat(read) /\ ret # None
            /\ arg = "$1.398,88 + iva" => ret = Some([m |-> 139888, e |-> 2])
            /\ arg = "$138.22" => ret = Some([m |-> 13822, e |-> 2])
            /\ arg = "1398,88" => ret = Some([m |-> 139888, e |-> 2])
            /\ arg = "$1.200,00" => ret = Some([m |-> 1200, e |-> 0])
            /\ arg = "abc.def,ghi" => ret = None
            /\ arg = "1.234.567,8" => ret = Some([m |-> 12345678, e |-> 1])

\* a price with a thousands dot and a decimal comma has been parsed
C8_Witness ==
    /\ pc = "done"
    /\ arg = "$1.398,88 + iva"
    /\ ret = Some([m |-> 139888, e |-> 2])

----------------------------------------------------------------------------
(* C9 *)

\* the start of the run of characters of a class that ends at position p
RECURSIVE RunStart(_, _, _)
RunStart(t, p, cls) ==
    IF p < 1 \/ ~InClass(cls, Chr(t, p)) THEN p + 1 ELSE RunStart(t, p - 1, cls)

\* the unit marker stands at position m with an integer right before it
\* (whitespace allowed between): the integer, or None
IntegerBefore(t, m) ==
    LET gap == RunStart(t, m - 1, "\\s")
        first == RunStart(t, gap - 1, "\\d")
    IN  IF /\ m + 7 <= Len(t)
           /\ EqIgnoreCase(SubSeq(t, m, m + 7), "UNIDADES")
           /\ first < gap
        THEN Some(DigitsToNat(SubSeq(t, first, gap - 1)))
        ELSE None

\* the integer before the first unit marker that has one
StatedStock(t) ==
    LET at == {m \in 1..Len(t) : IntegerBefore(t, m) # None}
    IN  IF at = {} THEN None
        ELSE IntegerBefore(t, CHOOSE m \in at : \A k \in at : m <= k)

\* C9: the call returns the integer that stands right before the unit marker,
\* whatever the letter case of the marker and the text around, its '+' sign
\* dropped, and no value when the text is empty or has no such marker; the
\* result is the same for the text without the signs of its integers and for
\* the text in the other letter case.
C9_StockBeforeMarker ==
    /\ pc \in {"again", "done"} =>
          /\ ret = StatedStock(arg)
          /\ arg = "" => ret = None
          /\ arg = "+50 UNIDADES" => ret = Some(50)
          /\ arg = "25 unidades" => ret = Some(25)
          /\ arg = "Stock: 100 UNIDADES disponibles" => ret = Some(100)
          /\ arg = "sin stock" => ret = None
    /\ pc = "done" => ret2 = ret

\* a signed integer before a marker, parsed with and without its sign
C9_Witness ==
    /\ pc = "done"
    /\ arg = "+50 UNIDADES"
    /\ arg2 = "50 UNIDADES"
    /\ ret = Some(50)
    /\ ret2 = Some(50)

----------------------------------------------------------------------------
(* C10 *)

\* no whitespace at either end and no two whitespace characters in a row
Tidy(t) ==
    /\ t # "" => ~IsSpace(Chr(t, 1)) /\ ~IsSpace(Chr(t, Len(t)))
    /\ \A k \in 1..(Len(t) - 1) : ~(IsSpace(Chr(t, k)) /\ IsSpace(Chr(t, k + 1)))

\* C10: the result of _cleanup_name has no whitespace at either end and no run
\* of more than one whitespace character, a null name gives the empty string,
\* and applying _cleanup_name to the result gives the result again.
C10_CleanupIdempotent ==
    /\ pc \in {"again", "done"} =>
          /\ Tidy(ret)
          /\ arg = None => ret = ""
    /\ pc = "done" => ret2 = ret

\* a name with line breaks and doubled blanks, cleaned twice
C10_Witness ==
    /\ pc = "done"
    /\ arg = Some("Notebook\nHP\nProBook")
    /\ ret = "Notebook HP ProBook"
    /\ ret2 = "Notebook HP ProBook"

----------------------------------------------------------------------------
(* C11 *)

\* the keys the registry holds, and the functions it holds for a key
Registered == {REGISTRY[k][1] : k \in 1..Len(REGISTRY)}
FunctionsOf(d, name) == {d[k][2] : k \in {j \in 1..Len(d) : d[j][1] = name}}

\* the last call was a lookup, and it failed
FailedLookup == result.op = "get_provider" /\ result.outcome # "returned"

\* C11: after any sequence of register and get_provider calls, a lookup of a
\* name that is not registered fails with an error whose text names the
\* requested key and lists exactly the registered keys; a lookup of a
\* registered name does not fail, whatever failed before, and returns the
\* function registered; and no lookup changes the registry.
C11_LookupFailsOnlyWhenUnregistered ==
    /\ [](result.op = "get_provider" =>
            /\ FailedLookup <=> result.name \notin Registered
            /\ FailedLookup =>
                  /\ result.outcome = "ValueError"
                  /\ Contains(result.message, result.name)
                  /\ \A n \in ProviderNames :
                        Contains(result.message, "'" \o n \o "'")
                            <=> n \in Registered
            /\ ~FailedLookup =>
                  FunctionsOf(REGISTRY, result.name) = {result.value})
    /\ [][result'.op = "get_provider" => REGISTRY' = REGISTRY]_vars

\* a failed lookup of "idc" while "idc_pdf" and "tecnomega" are registered
C11_Witness ==
    /\ FailedLookup
    /\ result.name = "idc"
    /\ Keys(REGISTRY) = <<"idc_pdf", "tecnomega">>
    /\ result.message =
           "Proveedor no registrado: idc. Disponibles: ['idc_pdf', 'tecnomega']"

----------------------------------------------------------------------------
(* C12 *)

\* the step registers name
Registers(name) == result'.op = "register" /\ result'.name = name

\* C12: a registered key maps to one function, the one last registered for it:
\* right after register(name) applied to f the registry maps name to f, a
\* lookup returns the function the registry maps the name to, a step that does
\* not register a key leaves that key with its function, and no step removes
\* a key.
C12_RegistrationAdditiveOverwrite ==
    /\ [](/\ \A n \in Registered : Cardinality(FunctionsOf(REGISTRY, n)) = 1
          /\ result.op = "register" =>
                FunctionsOf(REGISTRY, result.name) = {result.value}
          /\ (result.op = "get_provider" /\ result.name \in Registered) =>
                FunctionsOf(REGISTRY, result.name) = {result.value})
    /\ [][\A n \in Registered :
             /\ FunctionsOf(REGISTRY', n) # {}
             /\ ~Registers(n) =>
                   FunctionsOf(REGISTRY', n) = FunctionsOf(REGISTRY, n)]_vars

\* "idc", registered before "tecnomega", has just been registered again with
\* another function, and "tecnomega" is still there
C12_Witness ==
    /\ result.op = "register"
    /\ result.name = "idc"
    /\ REGISTRY = << <<"idc", "ingest_idc_pdf">>, <<"tecnomega", "get_idc_data">> >>

----------------------------------------------------------------------------
(* C13 *)

\* both passes have returned or raised
BothFinished == \A p \in 1..2 : passes[p].at \in {"done", "raised"}

\* what a pass over the document of ps returns when nothing else runs: the
\* table, or nothing when it raises
AloneFrame(ps) ==
    LET got == ReadDocument(ps.pdf)
    IN  IF got.exc = None
        THEN Some(FrameOf(got.all_lines, ps.supplier_name, ps.input_path))
        ELSE None

\* C13: two passes over different documents run at once safely: under every
\* interleaving, once both have finished, each has returned the records it
\* returns when run alone and the level of the "pdfminer" logger, the state
\* of the process they share, is the level it had before either started.
C13_ConcurrentPassesRestoreProcessState ==
    BothFinished =>
        \A p \in 1..2 : /\ logger_level = passes[p].before
                        /\ passes[p].df = AloneFrame(passes[p])

----------------------------------------------------------------------------
(* C14 *)

\* control is back with the caller of ingest_idc_pdf
Returned == entry = "ingest_idc_pdf" /\ pc \in {"done", "raised"}

\* the document cannot be read to its end: it does not open, or the
\* extraction of one of its pages raises
Unreadable(d) == ~d.readable \/ \E k \in 1..Len(d.pages) : d.pages[k].kind = "error"

\* C14: on every exit path of ingest_idc_pdf the document handle is released
\* before control returns, and when the document does not open or the
\* extraction of a page raises, even after earlier pages were read, the
\* exception goes to the caller: no rows are scanned, no record is built and
\* no table is returned.
C14_HandleReleasedOnEveryExit ==
    /\ Returned => handle = "closed"
    /\ Returned => (pc = "raised" <=> Unreadable(pdf))
    /\ (entry = "ingest_idc_pdf" /\ exc # None) =>
          /\ pc \in {"pages", "finally", "raised"}
          /\ rows = <<>> /\ out = <<>> /\ df = None
    /\ (entry = "ingest_idc_pdf" /\ pc = "raised") => exc # None
    /\ (entry = "ingest_idc_pdf" /\ pc = "done") => exc = None /\ df # None

\* the extraction of the second page raised after the first page was read,
\* and control is back with the caller
C14_Witness ==
    /\ Returned
    /\ pc = "raised"
    /\ exc = Some("extract_text")
    /\ page = 1
    /\ all_lines # <<>>
    /\ handle = "closed"
    /\ df = None

----------------------------------------------------------------------------
(* C15 *)

\* the calls of a complete run of main, in order
MainOrder == <<"get_provider", "ingest_idc_pdf", "export_excel", "print">>

IsPrefix(s, t) == Len(s) <= Len(t) /\ s = SubSeq(t, 1, Len(s))

\* main has made the call named what
Called(what) == \E k \in 1..Len(cli.calls) : cli.calls[k] = what

\* C15: in main the lookup comes before ingestion and export, and idc_pdf is
\* registered before any lookup.  With a --provider name that is not
\* registered the lookup error leaves main and nothing else is called: no
\* provider function, no export, no file written, no line printed.  With a
\* registered name the calls are lookup, ingest, export, print, in that order.
C15_LookupBeforeIngestAndExport ==
    entry = "main" =>
        /\ IsPrefix(cli.calls, MainOrder)
        /\ cli.at # "import" => HasKey(REGISTRY, "idc_pdf")
        /\ Called("get_provider") =>
              (result.outcome = "returned" <=> cli.provider = "idc_pdf")
        /\ (cli.provider # "idc_pdf" /\ Called("get_provider")) =>
              /\ cli.at = "raised"
              /\ result.outcome = "ValueError"
              /\ cli.calls = <<"get_provider">>
              /\ df = None /\ cli.written = None /\ cli.printed = None
        /\ cli.written # None => Called("export_excel")
        /\ cli.printed # None => cli.written # None /\ Called("print")
        /\ cli.at = "done" =>
              /\ cli.calls = MainOrder
              /\ cli.written = Some([path |-> cli.out_path, table |-> The(df)])
              /\ cli.printed # None

\* main has raised on the lookup of a name that is not registered
C15_Witness ==
    /\ entry = "main"
    /\ cli.provider = "proveedor_inexistente"
    /\ cli.at = "raised"
    /\ cli.calls = <<"get_provider">>
    /\ result.message # ""

----------------------------------------------------------------------------
(* C16 *)

\* the records of the pass have been assembled
Assembled == entry = "ingest_idc_pdf" /\ pc \in {"frame", "done"}

\* record rec is the record of tuple r: its SKU and name, each cost the number
\* of its tier or null, the stock the number of units or null
RecordOf(rec, r) ==
    /\ rec.supplier_sku = r.sku
    /\ rec.title = r.name
    /\ rec.cost_x1_usd = _parse_price_to_float(r.x1)
    /\ rec.cost_x3_usd = _parse_price_to_float(r.x3)
    /\ rec.cost_x6_usd = _parse_price_to_float(r.x6)
    /\ rec.stock = _parse_stock(r.stock_txt)

\* C16: the assembler yields exactly one record per raw tuple, in tuple
\* order; a tier or a stock text without a number does not abort the pass or
\* drop the record: the record is there with that field null, and every
\* record has the fields its own tuple gives, whatever the other tuples are.
C16_OneRecordPerTuple ==
    Assembled =>
        /\ exc = None
        /\ Len(out) = Len(rows)
        /\ \A k \in 1..Len(rows) : RecordOf(out[k], rows[k])
        /\ pc = "done" =>
              /\ Len(The(df).rows) = Len(rows)
              /\ \A k \in 1..Len(rows) : RecordOf(The(df).rows[k], rows[k])

\* a pass has returned two records: one with tiers and a stock text without
\* numbers, null there, next to one with every number
C16_Witness ==
    /\ Assembled
    /\ pc = "done"
    /\ Len(rows) = 2
    /\ \E k \in 1..2 :
          /\ out[k].stock = None /\ out[k].cost_x3_usd = None
          /\ out[k].cost_x1_usd # None
          /\ out[3 - k].stock # None /\ out[3 - k].cost_x1_usd # None
          /\ out[3 - k].cost_x3_usd # None /\ out[3 - k].cost_x6_usd # None

----------------------------------------------------------------------------
(* C17 *)

\* the output of the reconstructor on the first k lines of the input
OutputOn(k) == _extract_rows_from_text(SubSeq(lines, 1, k))

\* C17: classification is irrevocable and forward-only: no step modifies,
\* reorders or removes a tuple already emitted, and for every line sequence
\* and every k the output on the first k lines is a prefix of the output on
\* all the lines (the rows held after i lines are the output on those lines).
C17_OutputOnPrefixIsPrefix ==
    /\ [](entry = "_extract_rows_from_text" =>
             /\ rows = OutputOn(i)
             /\ \A k \in 0..i : IsPrefix(OutputOn(k), rows)
             /\ pc = "done" => i = Len(lines))
    /\ [][IsPrefix(rows, rows')]_vars

\* a scan has ended whose output on a shorter prefix of the lines already had
\* a tuple and whose output on all the lines has more
C17_Witness ==
    /\ entry = "_extract_rows_from_text"
    /\ pc = "done"
    /\ \E k \in 1..(Len(lines) - 1) :
          /\ OutputOn(k) # <<>>
          /\ Len(OutputOn(k)) < Len(rows)

----------------------------------------------------------------------------
(* C18 *)

\* the number of branches of the per-line classification that the line under
\* the cursor can take
BranchesOpen ==
    LET open == <<ENABLED NoiseLine, ENABLED RecordOpen,
                  ENABLED ContinuationKeyword, ENABLED ContinuationStrayPrice,
                  ENABLED ContinuationDescription, ENABLED DefaultStrayPrice,
                  ENABLED DefaultNameLine>>
    IN  Cardinality({b \in 1..Len(open) : open[b]})

\* C18: the scan terminates for every finite line sequence: every line under
\* the cursor takes exactly one of the seven branches, every branch moves the
\* cursor by exactly one line, the loop is left only with the cursor past the
\* last line, and the scan does end, after as many steps as there are lines.
C18_ScanTerminates ==
    /\ [](Scanning => BranchesOpen = 1)
    /\ [](pc = "done" => i = Len(lines))
    /\ [][\/ pc = "scan" /\ pc' = "scan" /\ i' = i + 1 /\ i < Len(lines)
          \/ pc = "scan" /\ pc' = "done" /\ i' = i /\ i = Len(lines)]_vars
    /\ <>(pc = "done")

\* a scan that has met the three cases of continuation mode has ended, its
\* cursor past the last of its lines
C18_Witness ==
    /\ entry = "_extract_rows_from_text"
    /\ pc = "done"
    /\ i = Len(lines)
    /\ Len(lines) = MaxLines
    /\ LineTests[lines[1]].opening /\ ~LineTests[lines[1]].noise
    /\ LineTests[lines[2]].dollar /\ ~LineTests[lines[2]].opening
    /\ ~LineTests[lines[2]].noise /\ ~LineTests[lines[2]].keyword

----------------------------------------------------------------------------
(* C19 *)

\* the line matches the record-opening pattern: six digits, whitespace, more
\* text, and a '$' in the line
OpeningPattern(l) == Stated[l].priced /\ Stated[l].digits = 6

\* C19: classification follows the priority order in both scanning states.
\* A noise line emits nothing and resets the state, also when it matches the
\* record-opening pattern; a line of that pattern that is not noise opens a
\* record, with continuation mode on exactly as with it off: one tuple is
\* appended, the one its buffer and text give, the buffer is emptied and
\* continuation mode is on; any other line emits nothing.
C19_PriorityOrderInBothStates ==
    [][Scanning =>
           /\ Stated[Current].noise =>
                 /\ rows' = rows
                 /\ name_buffer' = <<>>
                 /\ in_continuation' = FALSE
           /\ (~Stated[Current].noise /\ OpeningPattern(Current)) =>
                 /\ rows' = Append(rows, RawTuple(name_buffer, Stated[Current].text))
                 /\ name_buffer' = <<>>
                 /\ in_continuation' = TRUE
           /\ (~Stated[Current].noise /\ ~OpeningPattern(Current)) =>
                 rows' = rows]_vars

\* a record was opened with continuation mode on, and the line after it, a
\* footer phrase in a six-digit priced line, was taken as noise
C19_Witness ==
    /\ entry = "_extract_rows_from_text"
    /\ i = 3
    /\ IsOpening(lines[1]) /\ IsOpening(lines[2])
    /\ Stated[lines[3]].noise /\ OpeningPattern(lines[3])
    /\ Len(rows) = 2
    /\ ~in_continuation

----------------------------------------------------------------------------
(* C20 *)

\* the tiers the pieces ts stand for, in order of appearance
TiersOf(ts) ==
    LET tiers == [k \in 1..Len(ts) |-> ts[k].tier]
    IN  SelectSeq(tiers, LAMBDA t : t # "")

\* the k-th of the tiers, or the empty string
TierOr(tiers, k) == IF Len(tiers) >= k THEN tiers[k] ELSE ""

\* the sequences of pieces that make the text: a piece, then a space and the
\* pieces of the rest
RECURSIVE PiecesOf(_)
PiecesOf(text) ==
    IF text = "" THEN {<<>>}
    ELSE UNION {{<<t>> \o rest : rest \in PiecesOf(SubSeq(text, Len(t.text) + 2, Len(text)))} :
                  t \in {u \in TierTokens :
                            /\ StartsWith(text, u.text)
                            /\ Len(text) > Len(u.text) => Chr(text, Len(u.text) + 1) = " "}}

\* the text of the line after its SKU
Priced(l) == SubSeq(l, Len("123456 ") + 1, Len(l))

\* C20: on a record-opening line the price tiers are the matches of
\* '$ amount + iva', the tax marker in any case, each as '$' and its amount,
\* in order of appearance in tiers 1, 2 and 3: a fourth or later match is
\* dropped, a missing tier is the empty string, and a '$ amount' without
\* '+ iva' is no tier, so that later matches take the earlier tiers.
C20_TiersPositional ==
    (entry = "_extract_rows_from_text" /\ lines # <<>> /\ lines[1] \in TierLines
       /\ i = 1) =>
        /\ Len(rows) = 1
        /\ PiecesOf(Priced(lines[1])) # {}
        /\ \A ts \in PiecesOf(Priced(lines[1])) :
              /\ TierLine(ts) = lines[1]
              /\ _extract_prices_from_line(lines[1]) = TiersOf(ts)
              /\ rows[1].x1 = TierOr(TiersOf(ts), 1)
              /\ rows[1].x3 = TierOr(TiersOf(ts), 2)
              /\ rows[1].x6 = TierOr(TiersOf(ts), 3)

\* the tuple of a line with four matches: the first three are its tiers and
\* the fourth is dropped
C20_Witness ==
    /\ entry = "_extract_rows_from_text"
    /\ lines = <<"123456 $2,50 +IVA $1 + iva $ 3.000,00+ Iva $2,50 +IVA">>
    /\ i = 1
    /\ Len(_extract_prices_from_line(lines[1])) = 4
    /\ rows[1].x1 = "$2,50" /\ rows[1].x3 = "$1" /\ rows[1].x6 = "$3.000,00"

----------------------------------------------------------------------------
(* C21 *)

\* the line starts with one of the fixed product keywords, as a prefix and in
\* the keyword's own case
StatedKeyword(t) ==
    \E k \in 1..Len(product_keywords) : StartsWith(t, product_keywords[k])

\* a line that is neither noise nor record-opening and does not start with a
\* product keyword
Discarded(l) ==
    /\ ~Stated[l].noise
    /\ ~Stated[l].opening
    /\ ~StatedKeyword(Stated[l].text)

\* the lines ls without the line at position j
Without(ls, j) == SubSeq(ls, 1, j - 1) \o SubSeq(ls, j + 1, Len(ls))

\* the text of line j is part of no other line of the input
OnlyAt(j) ==
    \A k \in (1..Len(lines)) \ {j} :
        ~Contains(Stated[lines[k]].text, Stated[lines[j]].text)

\* C21: in continuation mode, the step that classifies a line that is neither
\* noise nor record-opening and does not start with a product keyword changes
\* nothing but the position: the name buffer is empty before and after,
\* continuation mode stays on and nothing is emitted, with or without '$' in
\* the line; the line reaches no name: the scan of the input emits what the
\* scan of the input without that line emits, and no name it emits holds the
\* line's text unless another line of the input holds it.
C21_ContinuationDiscardHasNoEffect ==
    [][(Scanning /\ in_continuation /\ Discarded(Current)) =>
           /\ name_buffer = <<>>
           /\ name_buffer' = <<>>
           /\ in_continuation'
           /\ rows' = rows
           /\ i' = i + 1
           /\ _extract_rows_from_text(Without(lines, i + 1))
                  = _extract_rows_from_text(lines)
           /\ OnlyAt(i + 1) =>
                  \A k \in 1..Len(_extract_rows_from_text(lines)) :
                      ~Contains(_extract_rows_from_text(lines)[k].name,
                                Stated[Current].text)]_vars

\* after a record, a description line and a loose price were both discarded,
\* in either order, and the scan returned the one record
C21_Witness ==
    /\ pc = "done"
    /\ Len(lines) = 3
    /\ IsOpening(lines[1])
    /\ lines[2] \in {"Core i5 8GB", "$50 + iva"}
    /\ lines[3] \in {"Core i5 8GB", "$50 + iva"} \ {lines[2]}
    /\ Len(rows) = 1
    /\ name_buffer = <<>>
    /\ in_continuation

----------------------------------------------------------------------------
(* C22 *)

\* the lines of the model that start with a product keyword, and those that
\* do not: another case, or the keyword after another word
WithKeyword ==
    {"Laptop", "Laptops 15", "Nashville", "UPS 1kVA", "  Monitor  B ",
     "Monitor LG $200", "Laptop Producto A"}
WithoutKeyword ==
    {"Ups 1kVA", "laptop x", "LAPTOP X", "Un Laptop", "monitor LG $200",
     "Core i5 8GB", "$50 + iva"}

\* the step classifies, in continuation mode, a line that is neither noise nor
\* record-opening
AfterRecord ==
    /\ Scanning
    /\ in_continuation
    /\ ~Stated[Current].noise
    /\ ~Stated[Current].opening

\* C22: in continuation mode, the step that classifies a line that is neither
\* noise nor record-opening and starts with a product keyword, as a prefix and
\* in the keyword's case, switches continuation mode off and leaves in the name
\* buffer exactly that line, trimmed, emitting nothing; a line that only starts
\* with a keyword in another case, or holds it after its start, does not; and
\* the record opened with the buffer non-empty has as name the cleaned join of
\* the buffer, the keyword line first, and its own text before the price.
C22_KeywordStartsNextName ==
    [][/\ (AfterRecord /\ StatedKeyword(Stated[Current].text)) =>
              /\ ~in_continuation'
              /\ name_buffer' = <<Stated[Current].text>>
              /\ rows' = rows
       /\ (AfterRecord /\ Current \in WithKeyword) =>
              (~in_continuation' /\ Len(name_buffer') = 1)
       /\ (AfterRecord /\ Current \in WithoutKeyword) =>
              (in_continuation' /\ name_buffer' = <<>>)
       /\ (Scanning /\ IsOpening(Current) /\ name_buffer # <<>>) =>
              /\ rows'[Len(rows')].name =
                     _cleanup_name(Some(Join(
                         name_buffer \o <<Stated[Current].between>>)))
              /\ StartsWith(rows'[Len(rows')].name,
                            _cleanup_name(Some(name_buffer[1])))]_vars

\* after a record, a line that starts with the keyword 'Nas' as part of a
\* longer word began the name of the next record
C22_Witness ==
    /\ pc = "done"
    /\ Len(lines) = 4
    /\ lines[2] = "Nashville"
    /\ lines[3] = "Core i5 8GB"
    /\ lines[4] = "678901 $5 + iva"
    /\ Len(rows) = 2
    /\ rows[2].name = "Nashville Core i5 8GB"

----------------------------------------------------------------------------
(* C23 *)

\* the step classifies, with continuation mode off, a line that is neither
\* noise nor record-opening
BeforeRecord ==
    /\ Scanning
    /\ ~in_continuation
    /\ ~Stated[Current].noise
    /\ ~Stated[Current].opening

\* C23: with continuation mode off, the step that classifies a line that is
\* neither noise nor record-opening pushes the line, trimmed, to the end of
\* the name buffer when it holds no '$', and discards it when it holds '$': the
\* buffer and continuation mode are then as they were and the scan emits what
\* it emits without that line; nothing is emitted by either step, and every
\* fragment in the buffer when a record is opened is in the name of that record.
C23_DefaultBuffersOrDiscards ==
    [][/\ (BeforeRecord /\ ~Stated[Current].dollar) =>
              /\ name_buffer' = Append(name_buffer, Stated[Current].text)
              /\ in_continuation' = in_continuation
              /\ rows' = rows
       /\ (BeforeRecord /\ Stated[Current].dollar) =>
              /\ name_buffer' = name_buffer
              /\ in_continuation' = in_continuation
              /\ rows' = rows
              /\ _extract_rows_from_text(Without(lines, i + 1))
                     = _extract_rows_from_text(lines)
       /\ (Scanning /\ IsOpening(Current)) =>
              \A k \in 1..Len(name_buffer) :
                  Contains(rows'[Len(rows')].name,
                           _cleanup_name(Some(name_buffer[k])))]_vars

\* a name line, a priced line with a five-digit SKU and a record-opening
\* line: the name line is in the name of the record
C23_Witness ==
    /\ pc = "done"
    /\ lines = <<"Laptop Producto A",
                 "12345 Extra $100,00 + iva 10 UNIDADES",
                 "123456 Extra $100,00 + iva $95,00 + iva 10 UNIDADES">>
    /\ Len(rows) = 1
    /\ rows[1].name = "Laptop Producto A Extra"

----------------------------------------------------------------------------
(* C24 *)

\* the trimmed non-empty lines of a text: its pieces between line breaks,
\* each trimmed, the blank ones left out
RECURSIVE TrimmedLines(_)
TrimmedLines(t) ==
    IF t = "" THEN <<>>
    ELSE LET e == FirstIn({k \in 1..Len(t) : Chr(t, k) \in {"\n", "\r", "\f"}},
                          Len(t))
             piece == Strip(SubSeq(t, 1, e - 1))
         IN  (IF piece = "" THEN <<>> ELSE <<piece>>)
             \o (IF e >= Len(t) THEN <<>>
                 ELSE TrimmedLines(SubSeq(t, e + 1, Len(t))))

\* the pages' trimmed non-empty lines, page after page; a page whose
\* extraction yields nothing has none
RECURSIVE FlatLines(_)
FlatLines(ps) ==
    IF ps = <<>> THEN <<>>
    ELSE FlatLines(SubSeq(ps, 1, Len(ps) - 1))
         \o (IF ps[Len(ps)].kind = "text" THEN TrimmedLines(ps[Len(ps)].text)
             ELSE <<>>)

\* the position of the first record-opening line of ls, or 0
FirstOpening(ls) ==
    IF \E k \in 1..Len(ls) : IsOpening(ls[k])
    THEN CHOOSE k \in 1..Len(ls) :
             IsOpening(ls[k]) /\ \A j \in 1..(k - 1) : ~IsOpening(ls[j])
    ELSE 0

\* C24: the pages read so far have given, in order, their trimmed non-empty
\* lines and nothing else; the scan is entered once, on the lines of the whole
\* document, and returns what the reconstructor returns on them; so a name
\* line right before the first record-opening line of the document is in the
\* name of its record also when a page ends between them, and the rows of the
\* table are the record-opening lines of the document, in document order.
C24_PagesFlattenedInOrder ==
    /\ (Ingesting("pages") /\ exc = None) =>
           all_lines = FlatLines(SubSeq(pdf.pages, 1, page))
    /\ (entry = "ingest_idc_pdf"
        /\ pc \in {"extract", "scan", "assemble", "frame", "done"}) =>
           all_lines = FlatLines(pdf.pages)
    /\ (entry = "ingest_idc_pdf"
        /\ pc \in {"scan", "assemble", "frame", "done"}) =>
           lines = all_lines
    /\ (entry = "ingest_idc_pdf" /\ pc \in {"assemble", "frame", "done"}) =>
           LET flat == FlatLines(pdf.pages)
               o == FirstOpening(flat)
           IN  /\ rows = _extract_rows_from_text(flat)
               /\ (o > 1 /\ NameLine(flat[o - 1])) =>
                      Contains(rows[1].name, _cleanup_name(Some(flat[o - 1])))
               /\ pc = "done" =>
                      /\ Len(The(df).rows) = Len(Openings(flat))
                      /\ \A k \in 1..Len(The(df).rows) :
                             The(df).rows[k].supplier_sku
                                 = Stated[Openings(flat)[k]].sku

\* a name line ends the first page and the record-opening line starts the
\* second: one record, named by both
C24_Witness ==
    /\ entry = "ingest_idc_pdf"
    /\ pc = "done"
    /\ Len(pdf.pages) = 2
    /\ pdf.pages[1] = TextPage("Laptop Producto Pagina 1")
    /\ FlatLines(<<pdf.pages[2]>>)
           = <<"123456 Extra $100,00 + iva $95,00 + iva $90,00 + iva 10 UNIDADES">>
    /\ Len(The(df).rows) = 1
    /\ The(df).rows[1].title = "Laptop Producto Pagina 1 Extra"

----------------------------------------------------------------------------
(* C25 *)

\* C25: in every state of the scan, continuation mode on implies an empty
\* name buffer; so a non-empty buffer is met only with continuation mode off.
C25_ContinuationImpliesEmptyBuffer ==
    (entry = "_extract_rows_from_text" /\ in_continuation) => name_buffer = <<>>

\* a record was opened on a buffer that held a fragment: continuation mode is
\* on and the buffer is empty again, with lines still to scan
C25_Witness ==
    /\ entry = "_extract_rows_from_text"
    /\ Scanning
    /\ i = 2
    /\ lines[1] = "Core i5 8GB"
    /\ IsOpening(lines[2])
    /\ in_continuation
    /\ name_buffer = <<>>
    /\ Len(rows) = 1
    /\ Contains(rows[1].name, "Core i5 8GB")

----------------------------------------------------------------------------
(* C26 *)

\* C26: no line of the name buffer holds the currency marker '$', and no name
\* emitted holds it.
C26_NoCurrencyMarkerInNames ==
    /\ \A k \in 1..Len(name_buffer) : ~Contains(name_buffer[k], "$")
    /\ \A k \in 1..Len(rows) : ~Contains(rows[k].name, "$")

----------------------------------------------------------------------------
(* C27 *)

\* the document is being opened or its pages extracted
Extracting == Ingesting("open") \/ Ingesting("pages")

\* C27: a single call of ingest_idc_pdf entered with the 'pdfminer' logger at
\* some level leaves the logger at that level when it has returned, normally or
\* with the error of opening or of extracting the document; while the document
\* is opened and its pages are extracted the level is ERROR.
C27_SingleCallRestoresLevel ==
    \A before \in LoggerLevels :
        (Ingesting("enter") /\ logger_level = before) =>
            [](/\ Returned => logger_level = before
               /\ Extracting => logger_level = "ERROR")

\* a call entered at WARNING whose second page raised has returned with the
\* level at WARNING
C27_Witness ==
    /\ Returned
    /\ pc = "raised"
    /\ exc = Some("extract_text")
    /\ page = 1
    /\ original_level = "WARNING"
    /\ logger_level = "WARNING"

====
